---- MODULE Spec2Model ----
(***************************************************************************)
(* A model of the match-data acquisition and caching pipeline of           *)
(* src/stats_visualization/league.py (and of the older src/league.py where *)
(* the two differ): the cache store (save_match_data,                      *)
(* load_cached_match_data, validate_match_data), the synchronous and the   *)
(* asynchronous batch coordinators (process_matches,                       *)
(* process_matches_async), the match and timeline fetchers, the metrics    *)
(* collector, the match-history lister and ensure_matches_for_player.      *)
(***************************************************************************)
EXTENDS Integers, Sequences, FiniteSets, Bags, TLC

(***************************************************************************)
(* Bounds of the model.                                                    *)
(***************************************************************************)
\* longest batch of match ids handed to a coordinator
MaxBatch == 2
\* largest value of the concurrency argument
MaxK == 2
\* number of 429 answers upstream gives during one run of a coordinator
Max429 == 1
\* number of cache files that are corrupt before the batch
MaxCorrupt == 1
\* number of cache-store operations in one run of the cache-store specification
MaxOps == 3
\* largest count handed to fetch_match_history
MaxCount == 201
\* largest Retry-After value upstream sends, in seconds
MaxRetryAfter == 5

(***************************************************************************)
(* JSON values.  A value is a record tagged with its JSON type; an object  *)
(* carries a function from its keys to values, an array a sequence.        *)
(***************************************************************************)
JNull == [t |-> "null"]

JNum(n) == [t |-> "number", n |-> n]

JStr(w) == [t |-> "string", w |-> w]

JArr(l) == [t |-> "array", l |-> l]

JObj(o) == [t |-> "object", o |-> o]

EmptyMap == [k \in {} |-> JNull]

EmptyObj == JObj(EmptyMap)

IsObject(v) == v.t = "object"

\* The characters of the string literals the model uses (for Python's
\* substring test on str).
Chars(w) ==
    CASE w = "info" -> <<"i", "n", "f", "o">>
      [] w = "metadata" -> <<"m", "e", "t", "a", "d", "a", "t", "a">>
      [] w = "info metadata" ->
            <<"i", "n", "f", "o", " ", "m", "e", "t", "a", "d", "a", "t", "a">>
      [] w = "not a dict" -> <<"n", "o", "t", " ", "a", " ", "d", "i", "c", "t">>
      [] w = "m1" -> <<"m", "1">>
      [] OTHER -> <<>>

IsSubstring(sub, s) ==
    \E i \in 1..(Len(s) - Len(sub) + 1) : SubSeq(s, i, i + Len(sub) - 1) = sub

\* Python's `field in data`: key membership for a dict, substring for a str,
\* element membership for a list.  Any other value is not iterable.
PyIterable(data) == data.t \in {"object", "string", "array"}

PyIn(field, data) ==
    CASE data.t = "object" -> field \in DOMAIN data.o
      [] data.t = "string" -> IsSubstring(Chars(field), Chars(data.w))
      [] data.t = "array" -> \E i \in 1..Len(data.l) : data.l[i] = JStr(field)
      [] OTHER -> FALSE

required_fields == <<"info", "metadata">>

\* stats_visualization/league.py: no isinstance check.
validate_match_data_missing_metadata(data) ==
    PyIn(required_fields[1], data)

validate_match_data(data) ==
    \A n \in 1..Len(required_fields) : PyIn(required_fields[n], data)

\* `field in data` raises TypeError on a value that is not iterable.
validate_match_data_raises(data) == ~PyIterable(data)

\* src/league.py: the same test behind an isinstance(data, dict) check.
validate_match_data_legacy(data) ==
    IF data.t # "object"
    THEN FALSE
    ELSE \A n \in 1..Len(required_fields) : PyIn(required_fields[n], data)

(***************************************************************************)
(* json.dump / json.load, on token sequences.                              *)
(***************************************************************************)
P(s) == [k |-> "punct", s |-> s]

TStr(w) == [k |-> "string", s |-> w]

TNum(n) == [k |-> "number", n |-> n]

TNull == [k |-> "null"]

\* The order in which an object's members are written.
KeyOrder == <<"metadata", "info", "timeline", "matchId", "gameId", "frames", "only",
             "participants", "puuid">>

RECURSIVE Dump(_)
RECURSIVE DumpMembers(_, _, _)
RECURSIVE DumpItems(_, _)

DumpMembers(o, n, first) ==
    IF n > Len(KeyOrder)
    THEN <<>>
    ELSE IF KeyOrder[n] \in DOMAIN o
         THEN (IF first THEN <<>> ELSE <<P(",")>>)
              \o <<TStr(KeyOrder[n]), P(":")>> \o Dump(o[KeyOrder[n]])
              \o DumpMembers(o, n + 1, FALSE)
         ELSE DumpMembers(o, n + 1, first)

DumpItems(l, n) ==
    IF n > Len(l)
    THEN <<>>
    ELSE (IF n = 1 THEN <<>> ELSE <<P(",")>>) \o Dump(l[n]) \o DumpItems(l, n + 1)

Dump(v) ==
    CASE v.t = "null" -> <<TNull>>
      [] v.t = "number" -> <<TNum(v.n)>>
      [] v.t = "string" -> <<TStr(v.w)>>
      [] v.t = "array" -> <<P("[")>> \o DumpItems(v.l, 1) \o <<P("]")>>
      [] v.t = "object" -> <<P("{")>> \o DumpMembers(v.o, 1, TRUE) \o <<P("}")>>

ParseFail == [ok |-> FALSE]

ParseOk(v, rest) == [ok |-> TRUE, v |-> v, rest |-> rest]

RECURSIVE ParseValue(_)
RECURSIVE ParseMembers(_, _)
RECURSIVE ParseItems(_, _)

\* toks follows "{" or ",": a key, ":", a value, then "," or "}".
ParseMembers(toks, acc) ==
    IF Len(toks) < 2 \/ toks[1].k # "string" \/ toks[2] # P(":")
    THEN ParseFail
    ELSE LET key == toks[1].s
             r == ParseValue(SubSeq(toks, 3, Len(toks)))
         IN  IF ~r.ok \/ r.rest = <<>>
             THEN ParseFail
             ELSE LET acc2 == [k \in DOMAIN acc \cup {key} |->
                                  IF k = key THEN r.v ELSE acc[k]]
                  IN  IF Head(r.rest) = P("}")
                      THEN ParseOk(JObj(acc2), Tail(r.rest))
                      ELSE IF Head(r.rest) = P(",")
                           THEN ParseMembers(Tail(r.rest), acc2)
                           ELSE ParseFail

\* toks follows "[" or ",": a value, then "," or "]".
ParseItems(toks, acc) ==
    LET r == ParseValue(toks)
    IN  IF ~r.ok \/ r.rest = <<>>
        THEN ParseFail
        ELSE IF Head(r.rest) = P("]")
             THEN ParseOk(JArr(Append(acc, r.v)), Tail(r.rest))
             ELSE IF Head(r.rest) = P(",")
                  THEN ParseItems(Tail(r.rest), Append(acc, r.v))
                  ELSE ParseFail

ParseValue(toks) ==
    IF toks = <<>>
    THEN ParseFail
    ELSE LET h == Head(toks)
             r == Tail(toks)
         IN  CASE h.k = "null" -> ParseOk(JNull, r)
               [] h.k = "number" -> ParseOk(JNum(h.n), r)
               [] h.k = "string" -> ParseOk(JStr(h.s), r)
               [] h = P("{") ->
                    IF r # <<>> /\ Head(r) = P("}")
                    THEN ParseOk(EmptyObj, Tail(r))
                    ELSE ParseMembers(r, EmptyMap)
               [] h = P("[") ->
                    IF r # <<>> /\ Head(r) = P("]")
                    THEN ParseOk(JArr(<<>>), Tail(r))
                    ELSE ParseItems(r, <<>>)
               [] OTHER -> ParseFail

\* json.load: the whole text is one value, or JSONDecodeError.
json_load(toks) ==
    LET r == ParseValue(toks)
    IN  IF r.ok /\ r.rest = <<>> THEN [ok |-> TRUE, v |-> r.v] ELSE [ok |-> FALSE]

json_dump(data) == Dump(data)

(***************************************************************************)
(* State.                                                                  *)
(***************************************************************************)
VARIABLES
    mode,          \* which entry point runs: "sync", "async", "cache", "validate", "history"
    match_ids,     \* the batch handed to the coordinator
    use_cache,     \* the coordinator's use_cache argument
    concurrency,   \* the concurrency argument of process_matches_async
    files,         \* the cache directory: match id -> file
    files0,        \* the cache directory before the batch
    metrics,       \* the global _fetch_metrics
    successful,    \* the coordinator's counters
    failed,
    cached,
    semaphore,     \* asyncio.Semaphore._value
    idx,           \* process_matches: position of the loop in match_ids
    task,          \* per position of match_ids: where its processing stands
    n429,          \* 429 answers upstream has given so far
    completed,     \* the coordinator has logged its aggregate counts
    ops,           \* cache-store specification: operations performed so far
    last_put,      \* cache-store specification: id -> last payload saved in full
    got,           \* cache-store specification: result of the last load
    v_in,          \* validation specification: the argument
    v_out,         \* validation specification: the result
    history,       \* history specification: the call of fetch_match_history
    call,          \* fetch specification: one call of a single-resource fetcher
    export,        \* metrics specification: the last value read from the collector
    ensure         \* ensure specification: the call of ensure_matches_for_player

vars == <<mode, match_ids, use_cache, concurrency, files, files0, metrics, successful,
          failed, cached, semaphore, idx, task, n429, completed, ops, last_put,
          got, v_in, v_out, history, call, export, ensure>>

Ids == {"m1", "m2"}

(***************************************************************************)
(* FetchMetrics.  request_latencies is kept as the bag of its samples: the *)
(* collector reads the list only through len, sum, max and sorted.         *)
(***************************************************************************)
NewMetrics ==
    [total_requests |-> 0, cache_hits |-> 0, cache_misses |-> 0, retry_count |-> 0,
     request_latencies |-> EmptyBag, match_ids_requests |-> 0,
     match_details_requests |-> 0, timeline_requests |-> 0,
     start_time |-> <<>>, end_time |-> <<>>]   \* <<>> is None, <<t>> the time t

add_request_latency_without_count(m, latency, request_type) ==
    [m EXCEPT !.request_latencies = @ (+) SetToBag({latency}),
              !.match_ids_requests = IF request_type = "match_ids" THEN @ + 1 ELSE @,
              !.match_details_requests =
                  IF request_type = "match_details" THEN @ + 1 ELSE @,
              !.timeline_requests = IF request_type = "timeline" THEN @ + 1 ELSE @]

add_request_latency(m, latency, request_type) ==
    [m EXCEPT !.request_latencies = @ (+) SetToBag({latency}),
              !.total_requests = @ + 1,
              !.match_ids_requests = IF request_type = "match_ids" THEN @ + 1 ELSE @,
              !.match_details_requests =
                  IF request_type = "match_details" THEN @ + 1 ELSE @,
              !.timeline_requests = IF request_type = "timeline" THEN @ + 1 ELSE @]

add_cache_hit(m) == [m EXCEPT !.cache_hits = @ + 1]

add_cache_miss(m) == [m EXCEPT !.cache_misses = @ + 1]

add_retry(m) == [m EXCEPT !.retry_count = @ + 1]

start_timing(m, now) == [m EXCEPT !.start_time = <<now>>]

end_timing(m, now) == [m EXCEPT !.end_time = <<now>>]

\* total_duration: None (<<>>) unless both times are set
total_duration(m) ==
    IF m.start_time # <<>> /\ m.end_time # <<>>
    THEN <<m.end_time[1] - m.start_time[1]>>
    ELSE <<>>

\* len(request_latencies), sum(request_latencies), sorted(request_latencies)
RECURSIVE BagSum(_)
BagSum(b) ==
    IF BagToSet(b) = {} THEN 0
    ELSE LET x == CHOOSE y \in BagToSet(b) : TRUE
         IN  x * CopiesIn(x, b) + BagSum([y \in BagToSet(b) \ {x} |-> b[y]])

RECURSIVE Repeat(_, _)
Repeat(x, n) == IF n = 0 THEN <<>> ELSE <<x>> \o Repeat(x, n - 1)

RECURSIVE sorted(_)
sorted(b) ==
    IF BagToSet(b) = {} THEN <<>>
    ELSE LET x == CHOOSE y \in BagToSet(b) : \A z \in BagToSet(b) : y <= z
         IN  Repeat(x, CopiesIn(x, b)) \o sorted([y \in BagToSet(b) \ {x} |-> b[y]])

\* avg_latency * 1000, kept as the exact quotient num / den (0 / 1 when there
\* is no sample)
avg_latency_ms(m) ==
    IF BagCardinality(m.request_latencies) = 0 THEN [num |-> 0, den |-> 1]
    ELSE [num |-> BagSum(m.request_latencies) * 1000,
          den |-> BagCardinality(m.request_latencies)]

\* int(len(sorted_latencies) * 0.95): the product rounds to a double whose
\* integer part is floor(95 n / 100) for every n the model reaches
p95_index_is_nearest_rank(n) == (n * 95 + 99) \div 100

p95_index(n) == (n * 95) \div 100

p95_latency(m) ==
    IF BagCardinality(m.request_latencies) = 0 THEN 0
    ELSE LET sorted_latencies == sorted(m.request_latencies)
             index == p95_index(Len(sorted_latencies))
             last == Len(sorted_latencies) - 1
         IN  sorted_latencies[(IF index < last THEN index ELSE last) + 1]

max_latency(m) ==
    IF BagCardinality(m.request_latencies) = 0 THEN 0
    ELSE CHOOSE y \in BagToSet(m.request_latencies) :
             \A z \in BagToSet(m.request_latencies) : z <= y

\* FetchMetrics.to_dict: the document json.dump writes
to_dict_swaps_cache_counters(m) ==
    [total_requests |-> m.total_requests,
     cache_hits |-> m.cache_misses,
     cache_misses |-> m.cache_hits,
     retry_count |-> m.retry_count,
     avg_latency_ms |-> avg_latency_ms(m),
     p95_latency_ms |-> p95_latency(m) * 1000,
     max_latency_ms |-> max_latency(m) * 1000,
     total_duration_seconds |-> total_duration(m),
     phase_breakdown |->
         [match_ids_requests |-> m.match_ids_requests,
          match_details_requests |-> m.match_details_requests,
          timeline_requests |-> m.timeline_requests]]

to_dict(m) ==
    [total_requests |-> m.total_requests,
     cache_hits |-> m.cache_hits,
     cache_misses |-> m.cache_misses,
     retry_count |-> m.retry_count,
     avg_latency_ms |-> avg_latency_ms(m),
     p95_latency_ms |-> p95_latency(m) * 1000,
     max_latency_ms |-> max_latency(m) * 1000,
     total_duration_seconds |-> total_duration(m),
     phase_breakdown |->
         [match_ids_requests |-> m.match_ids_requests,
          match_details_requests |-> m.match_details_requests,
          timeline_requests |-> m.timeline_requests]]

(***************************************************************************)
(* Cache store.  A file is absent, holds text (a token sequence), or holds *)
(* bytes that are not UTF-8.                                               *)
(***************************************************************************)
Absent == [exists |-> FALSE]

Text(toks) == [exists |-> TRUE, utf8 |-> TRUE, toks |-> toks]

Undecodable == [exists |-> TRUE, utf8 |-> FALSE]

\* How a write ends: in full; IOError from open(), the file untouched; IOError
\* while writing, the file truncated by open(.., "w") and partly written.
WriteOutcomes == {"ok", "open_error", "write_error"}

PartialText(toks) == SubSeq(toks, 1, Len(toks) \div 2)

save_match_data_merges(file, data, w) ==
    CASE w = "ok" ->
            IF file.exists /\ file.utf8 /\ json_load(file.toks).ok
               /\ IsObject(json_load(file.toks).v) /\ IsObject(data)
            THEN LET old == json_load(file.toks).v.o
                 IN  Text(json_dump(JObj([k \in DOMAIN old \cup DOMAIN data.o |->
                            IF k \in DOMAIN data.o THEN data.o[k] ELSE old[k]])))
            ELSE Text(json_dump(data))
      [] w = "open_error" -> file
      [] w = "write_error" -> Text(PartialText(json_dump(data)))

\* The file after save_match_data(match_id, data); it raises unless w = "ok".
save_match_data(file, data, w) ==
    CASE w = "ok" -> Text(json_dump(data))
      [] w = "open_error" -> file
      [] w = "write_error" -> Text(PartialText(json_dump(data)))

\* load_cached_match_data: the value returned ("data" or "none"), or "raise"
\* when an exception leaves the function, with the cache counters it adds.
\* Reading bytes that are not UTF-8 raises UnicodeDecodeError, which is
\* neither IOError nor json.JSONDecodeError.
load_cached_match_data(file) ==
    IF ~file.exists
    THEN [kind |-> "none", hit |-> 0, miss |-> 1]
    ELSE IF ~file.utf8
         THEN [kind |-> "raise", hit |-> 0, miss |-> 0]
         ELSE LET parsed == json_load(file.toks)
              IN  IF ~parsed.ok
                  THEN [kind |-> "none", hit |-> 0, miss |-> 1]
                  ELSE LET loaded == parsed.v
                           data == IF IsObject(loaded) THEN loaded ELSE EmptyObj
                       IN  IF validate_match_data(data)
                           THEN [kind |-> "data", data |-> data, hit |-> 1, miss |-> 0]
                           ELSE [kind |-> "none", hit |-> 0, miss |-> 1]

\* What a cache file holds, for the record of a task: "absent", "valid" (a
\* JSON object with "info" and "metadata"), "unparsable" (text that is not
\* JSON), "nonobject" (JSON that is not an object), "invalid" (an object
\* without "info" or "metadata"), "undecodable" (bytes that are not UTF-8).
FileKind(file) ==
    IF ~file.exists THEN "absent"
    ELSE IF ~file.utf8 THEN "undecodable"
    ELSE LET parsed == json_load(file.toks)
         IN  IF ~parsed.ok THEN "unparsable"
             ELSE IF parsed.v.t # "object" THEN "nonobject"
             ELSE IF {"info", "metadata"} \subseteq DOMAIN parsed.v.o THEN "valid"
             ELSE "invalid"

(***************************************************************************)
(* Upstream.  A request is answered with a 2xx response carrying a JSON    *)
(* body, with an HTTP error status, or not at all (timeout, connection     *)
(* error).                                                                 *)
(***************************************************************************)
\* the timeout of every request, in seconds
TIMEOUT == 30

MatchPayload(id) ==
    JObj([metadata |-> JObj([matchId |-> JStr(id)]), info |-> JObj([gameId |-> JNum(1)])])

\* an object without "info" and "metadata"
PartialObj == JObj([only |-> JStr("partial_data")])

TimelinePayload ==
    JObj([metadata |-> JObj([matchId |-> JStr("m1")]), info |-> JObj([frames |-> JArr(<<>>)])])

ErrorStatuses == {429, 404, 500}

HttpErrors == {[kind |-> "http_error", status |-> st] : st \in ErrorStatuses}

TransportError == [kind |-> "transport_error"]

OkResponse(body) == [kind |-> "ok", body |-> body]

MatchResponses(id) ==
    {OkResponse(b) : b \in {MatchPayload(id), PartialObj, JArr(<<>>)}}
        \cup HttpErrors \cup {TransportError}

TimelineResponses ==
    {OkResponse(b) : b \in {TimelinePayload, JArr(<<>>)}} \cup HttpErrors \cup {TransportError}

Is429(r) == r.kind = "http_error" /\ r.status = 429

\* The measured latency of a request: one that times out takes the timeout.
Latency(r) == IF r.kind = "transport_error" THEN TIMEOUT ELSE 1

\* What a response is, for the record of a task.
ResponseClass(r) ==
    CASE r.kind = "none" -> "none"
      [] r.kind = "ok" -> IF IsObject(r.body) THEN "ok_object" ELSE "ok_nonobject"
      [] r.kind = "http_error" -> IF r.status = 429 THEN "rate_limited" ELSE "http_error"
      [] OTHER -> "transport_error"

(***************************************************************************)
(* Synchronous fetchers.                                                   *)
(***************************************************************************)
\* make_api_request: the metrics after the request ...
make_api_request_metrics(m, r, request_type) ==
    LET m1 == add_request_latency(m, Latency(r), request_type)
    IN  IF Is429(r) THEN add_retry(m1) ELSE m1

\* ... and whether it returns the response (raise_for_status passed).
make_api_request_returns(r) == r.kind = "ok"

\* fetch_match_data returns the body when it is an object and raises otherwise.
fetch_match_data_ok(r) == make_api_request_returns(r) /\ IsObject(r.body)

\* fetch_timeline_data: the body when it is an object, None (JNull) otherwise.
fetch_timeline_data(r) ==
    IF make_api_request_returns(r) /\ IsObject(r.body) THEN r.body ELSE JNull

\* Python truthiness of an Optional[dict].
Truthy(v) == v.t = "object" /\ DOMAIN v.o # {}

\* match_data["timeline"] = timeline_data, when timeline_data is truthy
Combine(match_data, timeline_data) ==
    IF Truthy(timeline_data)
    THEN JObj([k \in DOMAIN match_data.o \cup {"timeline"} |->
                  IF k = "timeline" THEN timeline_data ELSE match_data.o[k]])
    ELSE match_data

(***************************************************************************)
(* Asynchronous fetchers.  The session is the httpx.AsyncClient that       *)
(* process_matches_async creates.  Response.raise_for_status() is an       *)
(* ordinary method: on an error status it raises HTTPStatusError, and on a *)
(* 2xx status it returns, and `await` of what it returns raises TypeError. *)
(* Either way control reaches the except branch.                           *)
(***************************************************************************)
\* The exception `await session.get(..)` / `await response.raise_for_status()`
\* ends with.
AsyncException(r) ==
    CASE r.kind = "ok" -> "TypeError"
      [] r.kind = "http_error" -> "HTTPStatusError"
      [] OTHER -> "RequestError"

\* hasattr(e, "response") and e.response.status_code == 429
AsyncRetries(r) == AsyncException(r) = "HTTPStatusError" /\ r.status = 429

\* The metrics after one request of fetch_match_data_async or
\* fetch_timeline_data_async.
async_request_metrics(m, r, request_type) ==
    LET m1 == add_request_latency(m, Latency(r), request_type)
    IN  IF AsyncRetries(r) THEN add_retry(m1) ELSE m1

(***************************************************************************)
(* The coordinators.                                                       *)
(***************************************************************************)
NewTask ==
    [pc |-> "pending",      \* "pending", "fetching" (holds the semaphore), "done"
     runs |-> 0,            \* times the body of the loop or of the task was entered
     lookup |-> "none",     \* the cache lookup: "skipped", "hit", "miss", "raised"
     seen |-> "none",       \* what the lookup found in the file (FileKind)
     m |-> "idle",          \* match request: "inflight", "sleeping", "ok", "err"
     t |-> "idle",          \* timeline request: "inflight", "sleeping", "some", "none"
     mdata |-> JNull,       \* what the match fetch returned
     tdata |-> JNull,       \* what the timeline fetch returned
     mlast |-> "none",      \* class of the last answer to the match request
     mreqs |-> 0,           \* match requests issued
     treqs |-> 0,           \* timeline requests issued
     writes |-> 0,          \* calls of save_match_data
     wres |-> "none",       \* how the write ended
     outcome |-> "pending"] \* "cached", "stored", "failed"

Positions == 1..Len(match_ids)

Holders == {i \in Positions : task[i].pc = "fetching"}

AllDone == \A i \in Positions : task[i].pc = "done"

unchanged_other == UNCHANGED <<ops, last_put, got, v_in, v_out, history, call, export, ensure>>

unchanged_config == UNCHANGED <<mode, match_ids, use_cache, concurrency, files0>>

\* The cache lookup of one id: load_cached_match_data when use_cache.
Lookup_always_fetches(id) == [kind |-> "skip", hit |-> 0, miss |-> 0]

Lookup(id) ==
    IF use_cache THEN load_cached_match_data(files[id])
    ELSE [kind |-> "skip", hit |-> 0, miss |-> 0]

LookupMetrics(m, lk) ==
    IF lk.hit = 1 THEN add_cache_hit(m)
    ELSE IF lk.miss = 1 THEN add_cache_miss(m)
    ELSE m

LookupName(lk) ==
    CASE lk.kind = "data" -> "hit"
      [] lk.kind = "none" -> "miss"
      [] lk.kind = "raise" -> "raised"
      [] OTHER -> "skipped"

\* A request that is not issued has no answer, a write that is not made no
\* outcome.
NoResponse == [kind |-> "none"]

\* The cache file of an id after the coordinator's try block: save_match_data
\* comes after the fetch, so it runs only when the fetch returned.
store_result_even_when_failed(file, fetched, data, w) ==
    IF fetched THEN save_match_data(file, data, w)
    ELSE save_match_data(file, EmptyObj, "ok")

store_result(file, fetched, data, w) ==
    IF fetched THEN save_match_data(file, data, w) ELSE file

\* One iteration of the loop of process_matches, for the id at idx: lk is
\* what the cache lookup gives, mr and tr are the answers upstream gives to
\* the match and the timeline request, and w is the way the write of the
\* cache file ends.
process_matches_aborts(lk, mr, tr, w) ==
    LET id == match_ids[idx]
        fetch == lk.kind \in {"none", "skip"}
        m_ok == fetch /\ fetch_match_data_ok(mr)
        raised == lk.kind = "raise" \/ (fetch /\ (~m_ok \/ w # "ok"))
        m1 == LookupMetrics(metrics, lk)
        m2 == IF fetch THEN make_api_request_metrics(m1, mr, "match_details") ELSE m1
        m3 == IF m_ok THEN make_api_request_metrics(m2, tr, "timeline") ELSE m2
    IN  /\ metrics' = m3
        /\ files' = [files EXCEPT ![id] =
                        store_result(@, m_ok, Combine(mr.body, fetch_timeline_data(tr)), w)]
        /\ cached' = cached + lk.hit
        /\ successful' = IF raised THEN successful ELSE successful + 1
        /\ failed' = failed
        /\ task' = IF raised
                   THEN [i \in Positions |->
                           IF i < idx THEN task[i]
                           ELSE [task[i] EXCEPT !.pc = "done", !.outcome = "failed"]]
                   ELSE [task EXCEPT ![idx] = [@ EXCEPT
                           !.pc = "done", !.lookup = LookupName(lk),
                           !.outcome = IF lk.kind = "data" THEN "cached" ELSE "stored"]]
        /\ idx' = IF raised THEN Len(match_ids) + 1 ELSE idx + 1

process_matches_step(lk, mr, tr, w) ==
    LET id == match_ids[idx]
        fetch == lk.kind \in {"none", "skip"}
        m_ok == fetch /\ fetch_match_data_ok(mr)
        raised == lk.kind = "raise" \/ (fetch /\ (~m_ok \/ w # "ok"))
        m1 == LookupMetrics(metrics, lk)
        m2 == IF fetch THEN make_api_request_metrics(m1, mr, "match_details") ELSE m1
        m3 == IF m_ok THEN make_api_request_metrics(m2, tr, "timeline") ELSE m2
    IN  /\ metrics' = m3
        /\ files' = [files EXCEPT ![id] =
                        store_result(@, m_ok, Combine(mr.body, fetch_timeline_data(tr)), w)]
        /\ cached' = cached + lk.hit
        /\ successful' = IF raised THEN successful ELSE successful + 1
        /\ failed' = IF raised THEN failed + 1 ELSE failed
        /\ task' = [task EXCEPT ![idx] = [@ EXCEPT
                      !.pc = "done",
                      !.runs = @ + 1,
                      !.lookup = LookupName(lk),
                      !.seen = IF use_cache THEN FileKind(files[id]) ELSE @,
                      !.m = IF fetch THEN (IF m_ok THEN "ok" ELSE "err") ELSE @,
                      !.t = IF m_ok
                            THEN (IF fetch_timeline_data(tr) = JNull THEN "none" ELSE "some")
                            ELSE @,
                      !.mdata = IF m_ok THEN mr.body ELSE @,
                      !.tdata = IF m_ok THEN fetch_timeline_data(tr) ELSE @,
                      !.mlast = IF fetch THEN ResponseClass(mr) ELSE @,
                      !.mreqs = IF fetch THEN 1 ELSE 0,
                      !.treqs = IF m_ok THEN 1 ELSE 0,
                      !.writes = IF m_ok THEN 1 ELSE 0,
                      !.wres = IF m_ok THEN w ELSE @,
                      !.outcome = IF raised THEN "failed"
                                  ELSE IF lk.kind = "data" THEN "cached" ELSE "stored"]]
        /\ idx' = idx + 1

\* process_matches handles the next id of the batch.  Upstream answers the
\* requests the iteration issues, and only those.
SyncProcess ==
    /\ mode = "sync"
    /\ idx <= Len(match_ids)
    /\ LET lk == Lookup(match_ids[idx])
           fetch == lk.kind \in {"none", "skip"}
       IN  \E mr \in (IF fetch THEN MatchResponses(match_ids[idx]) ELSE {NoResponse}) :
             \E tr \in (IF fetch /\ fetch_match_data_ok(mr)
                        THEN TimelineResponses ELSE {NoResponse}) :
               \E w \in (IF fetch /\ fetch_match_data_ok(mr) THEN WriteOutcomes ELSE {"none"}) :
                 process_matches_step(lk, mr, tr, w)
    /\ UNCHANGED <<semaphore, n429, completed>>
    /\ unchanged_config /\ unchanged_other

\* The loop has ended: process_matches logs the counts and returns.
SyncComplete ==
    /\ mode = "sync"
    /\ idx > Len(match_ids)
    /\ ~completed
    /\ completed' = TRUE
    /\ UNCHANGED <<files, metrics, successful, failed, cached, semaphore, idx, task, n429>>
    /\ unchanged_config /\ unchanged_other

\* asyncio.Semaphore(concurrency): acquire() returns at once while the value is
\* positive and blocks otherwise.
semaphore_unguarded(value) == TRUE

semaphore_free(value) == value > 0

\* Leaving `async with semaphore` releases it.
semaphore_release_leaks(value) == value

semaphore_release(value) == value + 1

\* What one request of fetch_match_data_async ends in: the fetch returns the
\* body ("ok"), sleeps before it retries ("sleeping"), or raises ("err").
fetch_match_data_async_step_awaits_nothing(r) ==
    IF r.kind = "ok"
    THEN IF IsObject(r.body) THEN "ok" ELSE "err"
    ELSE IF AsyncRetries(r) THEN "sleeping" ELSE "err"

fetch_match_data_async_step(r) ==
    IF AsyncException(r) = "none"
    THEN IF IsObject(r.body) THEN "ok" ELSE "err"
    ELSE IF AsyncRetries(r) THEN "sleeping" ELSE "err"

\* The same for fetch_timeline_data_async, which returns None where the match
\* fetch raises.
fetch_timeline_data_async_step(r) ==
    IF AsyncException(r) = "none"
    THEN IF IsObject(r.body) THEN "some" ELSE "none"
    ELSE IF AsyncRetries(r) THEN "sleeping" ELSE "none"

\* A task of process_matches_async enters `async with semaphore`, looks the id
\* up in the cache and, on a miss, starts the match and the timeline request
\* (asyncio.gather).  A hit, or a lookup that raises, ends the task and
\* releases the semaphore without a suspension point in between.
AsyncAcquire(i) ==
    /\ mode = "async"
    /\ task[i].pc = "pending"
    /\ semaphore_free(semaphore)
    /\ LET id == match_ids[i]
           lk == Lookup(id)
           fetch == lk.kind \in {"none", "skip"}
       IN  /\ metrics' = LookupMetrics(metrics, lk)
           /\ cached' = cached + lk.hit
           /\ successful' = IF lk.kind = "data" THEN successful + 1 ELSE successful
           /\ failed' = IF lk.kind = "raise" THEN failed + 1 ELSE failed
           /\ semaphore' = IF fetch THEN semaphore - 1 ELSE semaphore
           /\ task' = [task EXCEPT ![i] = [@ EXCEPT
                         !.pc = IF fetch THEN "fetching" ELSE "done",
                         !.runs = @ + 1,
                         !.lookup = LookupName(lk),
                         !.seen = IF use_cache THEN FileKind(files[id]) ELSE @,
                         !.m = IF fetch THEN "inflight" ELSE @,
                         !.t = IF fetch THEN "inflight" ELSE @,
                         !.mreqs = IF fetch THEN 1 ELSE 0,
                         !.treqs = IF fetch THEN 1 ELSE 0,
                         !.outcome = CASE lk.kind = "data" -> "cached"
                                       [] lk.kind = "raise" -> "failed"
                                       [] OTHER -> @]]
    /\ UNCHANGED <<files, idx, n429, completed>>
    /\ unchanged_config /\ unchanged_other

\* Upstream answers the match request of task i with r.
MatchRespond(i, r) ==
    /\ mode = "async"
    /\ task[i].pc = "fetching"
    /\ task[i].m = "inflight"
    /\ Is429(r) => n429 < Max429
    /\ metrics' = async_request_metrics(metrics, r, "match_details")
    /\ n429' = IF Is429(r) THEN n429 + 1 ELSE n429
    /\ task' = [task EXCEPT ![i] = [@ EXCEPT
                  !.m = fetch_match_data_async_step(r),
                  !.mdata = IF fetch_match_data_async_step(r) = "ok" THEN r.body ELSE @,
                  !.mlast = ResponseClass(r)]]
    /\ UNCHANGED <<files, successful, failed, cached, semaphore, idx, completed>>
    /\ unchanged_config /\ unchanged_other

\* Upstream answers the timeline request of task i with r.
TimelineRespond(i, r) ==
    /\ mode = "async"
    /\ task[i].pc = "fetching"
    /\ task[i].t = "inflight"
    /\ Is429(r) => n429 < Max429
    /\ metrics' = async_request_metrics(metrics, r, "timeline")
    /\ n429' = IF Is429(r) THEN n429 + 1 ELSE n429
    /\ task' = [task EXCEPT ![i] = [@ EXCEPT
                  !.t = fetch_timeline_data_async_step(r),
                  !.tdata = IF fetch_timeline_data_async_step(r) = "some" THEN r.body ELSE @]]
    /\ UNCHANGED <<files, successful, failed, cached, semaphore, idx, completed>>
    /\ unchanged_config /\ unchanged_other

\* asyncio.sleep(retry_after) is over: the fetch calls itself, which issues
\* the request again.
MatchRetry(i) ==
    /\ mode = "async"
    /\ task[i].pc = "fetching"
    /\ task[i].m = "sleeping"
    /\ task' = [task EXCEPT ![i] = [@ EXCEPT !.m = "inflight", !.mreqs = @ + 1]]
    /\ UNCHANGED <<files, metrics, successful, failed, cached, semaphore, idx, n429, completed>>
    /\ unchanged_config /\ unchanged_other

TimelineRetry(i) ==
    /\ mode = "async"
    /\ task[i].pc = "fetching"
    /\ task[i].t = "sleeping"
    /\ task' = [task EXCEPT ![i] = [@ EXCEPT !.t = "inflight", !.treqs = @ + 1]]
    /\ UNCHANGED <<files, metrics, successful, failed, cached, semaphore, idx, n429, completed>>
    /\ unchanged_config /\ unchanged_other

\* Both fetches of task i have ended: fetch_match_with_timeline_async raises
\* the match fetch's exception or combines the two results, the result is
\* saved (the write ends as w), the task counts itself and leaves
\* `async with semaphore`.
AsyncFinish(i, w) ==
    /\ mode = "async"
    /\ task[i].pc = "fetching"
    /\ task[i].m \in {"ok", "err"}
    /\ task[i].t \in {"some", "none"}
    /\ LET id == match_ids[i]
           m_ok == task[i].m = "ok"
           stored == m_ok /\ w = "ok"
       IN  /\ files' = [files EXCEPT ![id] =
                           store_result(@, m_ok, Combine(task[i].mdata, task[i].tdata), w)]
           /\ successful' = IF stored THEN successful + 1 ELSE successful
           /\ failed' = IF stored THEN failed ELSE failed + 1
           /\ task' = [task EXCEPT ![i] = [@ EXCEPT
                         !.pc = "done",
                         !.writes = IF m_ok THEN 1 ELSE 0,
                         !.wres = IF m_ok THEN w ELSE @,
                         !.outcome = IF stored THEN "stored" ELSE "failed"]]
    /\ semaphore' = semaphore_release(semaphore)
    /\ UNCHANGED <<metrics, cached, idx, n429, completed>>
    /\ unchanged_config /\ unchanged_other

\* asyncio.gather has every task's result: process_matches_async logs the
\* counts and returns.
AsyncComplete ==
    /\ mode = "async"
    /\ AllDone
    /\ ~completed
    /\ completed' = TRUE
    /\ UNCHANGED <<files, metrics, successful, failed, cached, semaphore, idx, task, n429>>
    /\ unchanged_config /\ unchanged_other

(***************************************************************************)
(* The coordinator's specification: one batch, processed by                *)
(* process_matches or by process_matches_async, on a cache directory in    *)
(* any state.                                                              *)
(***************************************************************************)
\* The batches of at most n ids.  The ids are interchangeable, so a batch
\* starts with "m1".
Batches(n) == {b \in UNION {[1..k -> Ids] : k \in 0..n} : b = <<>> \/ b[1] = "m1"}

\* What the cache file of an id may hold before the batch: nothing, a saved
\* match, a partly written match, JSON that is no object, an object that is
\* no match, bytes that are no text.
InitFiles(id) ==
    {Absent,
     Text(json_dump(MatchPayload(id))),
     Text(PartialText(json_dump(MatchPayload(id)))),
     Text(json_dump(JArr(<<>>))),
     Text(json_dump(PartialObj)),
     Undecodable}

InBatch(id, batch) == \E n \in 1..Len(batch) : batch[n] = id

\* no save yet, no load yet, no call of validate_match_data or of
\* fetch_match_history yet
NoPut == [w |-> "none"]

NoLoad == [id |-> "none"]

NoResult == [module |-> "none"]

NoHistory == [pc |-> "idle"]

NoCall == [fn |-> "none"]

NoExport == [of |-> "none"]

NoEnsure == [pc |-> "none"]

InitOther ==
    /\ ops = 0
    /\ last_put = [id \in Ids |-> NoPut]
    /\ got = NoLoad
    /\ v_in = JNull
    /\ v_out = NoResult
    /\ history = NoHistory
    /\ call = NoCall
    /\ export = NoExport
    /\ ensure = NoEnsure

Init ==
    /\ mode \in {"sync", "async"}
    /\ match_ids \in Batches(MaxBatch)
    /\ use_cache \in BOOLEAN
    /\ concurrency \in (IF mode = "async" THEN 0..MaxK ELSE {0})
    /\ files \in [Ids -> UNION {InitFiles(id) : id \in Ids}]
    /\ \A id \in Ids : files[id] \in (IF InBatch(id, match_ids) THEN InitFiles(id) ELSE {Absent})
    /\ Cardinality({id \in Ids : FileKind(files[id]) \notin {"absent", "valid"}}) <= MaxCorrupt
    /\ files0 = files
    /\ metrics = NewMetrics
    /\ successful = 0
    /\ failed = 0
    /\ cached = 0
    /\ semaphore = concurrency
    /\ idx = 1
    /\ task = [i \in 1..Len(match_ids) |-> NewTask]
    /\ n429 = 0
    /\ completed = FALSE
    /\ InitOther

Next ==
    \/ SyncProcess
    \/ SyncComplete
    \/ \E i \in Positions : AsyncAcquire(i)
    \/ \E i \in Positions : \E r \in MatchResponses(match_ids[i]) : MatchRespond(i, r)
    \/ \E i \in Positions : \E r \in TimelineResponses : TimelineRespond(i, r)
    \/ \E i \in Positions : MatchRetry(i)
    \/ \E i \in Positions : TimelineRetry(i)
    \/ \E i \in Positions : \E w \in WriteOutcomes : AsyncFinish(i, w)
    \/ AsyncComplete

Spec == Init /\ [][Next]_vars

\* What every specification but the coordinators' starts from: no batch.
InitNoBatch ==
    /\ match_ids = <<>>
    /\ use_cache = TRUE
    /\ concurrency = 0
    /\ metrics = NewMetrics
    /\ successful = 0
    /\ failed = 0
    /\ cached = 0
    /\ semaphore = 0
    /\ idx = 1
    /\ task = <<>>
    /\ n429 = 0
    /\ completed = FALSE

unchanged_batch ==
    UNCHANGED <<mode, match_ids, use_cache, concurrency, files0, successful, failed,
                cached, semaphore, idx, task, completed>>

unchanged_calls == UNCHANGED <<call, export, ensure>>

(***************************************************************************)
(* The cache store's specification: saves and loads, in any order, on a    *)
(* cache directory that may hold earlier entries.                          *)
(***************************************************************************)
\* A match with its timeline, as fetch_match_with_timeline returns it.
FullPayload(id) == Combine(MatchPayload(id), TimelinePayload)

\* The payloads handed to save_match_data: matches with and without timeline,
\* objects whose "info" and "metadata" are no objects, and objects without
\* the two keys.
CachePayloads(id) ==
    {MatchPayload(id),
     FullPayload(id),
     JObj([metadata |-> JStr(id), info |-> JNum(1)]),
     JObj([metadata |-> JObj([matchId |-> JStr(id)])]),
     PartialObj,
     EmptyObj}

\* save_match_data(id, p), the write ending as w.  last_put keeps the
\* payload the file holds in full: a write that fails in open() leaves the
\* file as it is, one that fails later leaves a part of the text.
Save(id, p, w) ==
    /\ mode = "cache"
    /\ ops < MaxOps
    /\ files' = [files EXCEPT ![id] = save_match_data(@, p, w)]
    /\ last_put' = [last_put EXCEPT ![id] =
                       CASE w = "ok" -> [w |-> "ok", data |-> p]
                         [] w = "open_error" -> @
                         [] OTHER -> [w |-> w]]
    /\ got' = NoLoad
    /\ ops' = ops + 1
    /\ UNCHANGED <<metrics, n429, v_in, v_out, history>>
    /\ unchanged_batch
    /\ unchanged_calls

\* load_cached_match_data(id)
Load(id) ==
    /\ mode = "cache"
    /\ ops < MaxOps
    /\ LET lk == load_cached_match_data(files[id])
       IN  /\ got' = [id |-> id, lk |-> lk]
           /\ metrics' = LookupMetrics(metrics, lk)
    /\ ops' = ops + 1
    /\ UNCHANGED <<files, last_put, n429, v_in, v_out, history>>
    /\ unchanged_batch
    /\ unchanged_calls

InitCache ==
    /\ mode = "cache"
    /\ files \in [Ids -> UNION {{Absent, Text(json_dump(FullPayload(id)))} : id \in Ids}]
    /\ \A id \in Ids : files[id] \in {Absent, Text(json_dump(FullPayload(id)))}
    /\ files0 = files
    /\ InitNoBatch
    /\ InitOther

NextCache ==
    \/ \E id \in Ids : \E p \in CachePayloads(id) : \E w \in WriteOutcomes : Save(id, p, w)
    \/ \E id \in Ids : Load(id)

SpecCache == InitCache /\ [][NextCache]_vars

(***************************************************************************)
(* The validation's specification: validate_match_data, of                 *)
(* stats_visualization/league.py and of league.py, called on a JSON value. *)
(***************************************************************************)
\* What "info", "metadata" and a third key of an argument may hold.
FieldValues ==
    {JNull, JNum(1), JStr("partial_data"), JArr(<<>>), EmptyObj, JObj([gameId |-> JNum(1)])}

FieldNames == {"info", "metadata", "only"}

ObjectInputs ==
    UNION {{JObj(o) : o \in [ks -> FieldValues]} : ks \in SUBSET FieldNames}

OtherInputs ==
    {JNull, JNum(1),
     JStr("not a dict"), JStr("info"), JStr("info metadata"),
     JArr(<<>>), JArr(<<JStr("info")>>), JArr(<<JStr("info"), JStr("metadata")>>)}

PyBool(b) == IF b THEN "True" ELSE "False"

\* stats_visualization.league.validate_match_data(v_in)
ValidateCall ==
    /\ mode = "validate"
    /\ v_out = NoResult
    /\ v_out' = [module |-> "stats_visualization.league",
                 result |-> IF validate_match_data_raises(v_in)
                            THEN "TypeError"
                            ELSE PyBool(validate_match_data(v_in))]
    /\ UNCHANGED <<files, metrics, n429, ops, last_put, got, v_in, history>>
    /\ unchanged_batch
    /\ unchanged_calls

\* league.validate_match_data(v_in)
ValidateLegacyCall ==
    /\ mode = "validate"
    /\ v_out = NoResult
    /\ v_out' = [module |-> "league", result |-> PyBool(validate_match_data_legacy(v_in))]
    /\ UNCHANGED <<files, metrics, n429, ops, last_put, got, v_in, history>>
    /\ unchanged_batch
    /\ unchanged_calls

InitValidate ==
    /\ mode = "validate"
    /\ files = [id \in Ids |-> Absent]
    /\ files0 = files
    /\ InitNoBatch
    /\ ops = 0
    /\ last_put = [id \in Ids |-> NoPut]
    /\ got = NoLoad
    /\ v_in \in ObjectInputs \cup OtherInputs
    /\ v_out = NoResult
    /\ history = NoHistory
    /\ call = NoCall
    /\ export = NoExport
    /\ ensure = NoEnsure

NextValidate == ValidateCall \/ ValidateLegacyCall

SpecValidate == InitValidate /\ [][NextValidate]_vars

(***************************************************************************)
(* The history lister's specification: one call of fetch_match_history.    *)
(* A page of match ids is kept as the offset it starts at and the number   *)
(* of its ids.                                                             *)
(***************************************************************************)
\* the most ids one request asks for
max_per_request == 100

\* the count argument: not positive, within one page, over several pages
Counts == {-2, -1, 0, 1, 2, max_per_request, max_per_request + 1, MaxCount}

Min_uncapped(a, b) == b

Min(a, b) == IF a < b THEN a ELSE b

\* `if count <= 0: raise ValueError`
count_is_invalid_when_negative(count) == count < 0

count_is_invalid(count) == count <= 0

\* the seconds slept after a 429 answer without a Retry-After header
DEFAULT_RETRY_AFTER == 2

\* The Retry-After header of a 429 answer: absent, or a number of seconds.
RetryAfterHeaders == {<<>>, <<1>>, <<MaxRetryAfter>>}

\* int(e.response.headers.get("Retry-After", "2"))
retry_after_ignores_header(r) == DEFAULT_RETRY_AFTER

retry_after(r) == IF r.retry_after = <<>> THEN DEFAULT_RETRY_AFTER ELSE r.retry_after[1]

\* The answers to a request for batch_count ids: a list of n ids (n short of
\* batch_count when the history ends or an entry is neither str nor int),
\* a body that is no list, an HTTP error, no answer.  Upstream keeps to
\* the count it is asked for.
HistoryResponses(batch_count) ==
    {[kind |-> "ok", body |-> "list", ids |-> n] :
        n \in {0, batch_count - 1, batch_count}}
    \cup {[kind |-> "ok", body |-> "object"]}
    \cup {[kind |-> "http_error", status |-> 429, retry_after |-> h] : h \in RetryAfterHeaders}
    \cup {[kind |-> "http_error", status |-> e.status, retry_after |-> <<>>] :
             e \in {e \in HttpErrors : ~Is429(e)}}
    \cup {TransportError}

\* `e.response is not None and e.response.status_code == 429`: the error
\* after which the loop sleeps and goes on.
history_retries_every_http_error(r) == r.kind = "http_error"

history_retries(r) == r.kind = "http_error" /\ r.status = 429

\* 429 answers upstream gives within one call of fetch_match_history
MaxHistory429 == 3

\* the call has not returned
NotReturned == [returned |-> FALSE]

NewHistory(count) ==
    [pc |-> "called",        \* "called", "loop", "sleeping", "returned", "raised"
     count |-> count,
     start |-> 0,
     remaining |-> 0,
     all_match_ids |-> <<>>,
     requests |-> 0,         \* requests sent
     asked |-> <<>>,         \* per request: start, count, the kind of the answer
                             \* and its Retry-After header
     slept |-> <<>>,         \* the durations of the calls of time.sleep
     result |-> NotReturned, \* what the call returned
     error |-> "none"]

\* What an answer is, for the record of the requests.
HistoryAnswer(r) ==
    CASE r.kind = "ok" /\ r.body = "list" -> "list"
      [] r.kind = "ok" -> "no_list"
      [] Is429(r) -> "rate_limited"
      [] r.kind = "http_error" -> "http_error"
      [] OTHER -> "transport_error"

\* fetch_match_history(puuid, count, token) is entered: the check of count,
\* then the loop's variables.
HistoryCall ==
    /\ mode = "history"
    /\ history.pc = "called"
    /\ history' = IF count_is_invalid(history.count)
                  THEN [history EXCEPT !.pc = "raised", !.error = "ValueError"]
                  ELSE [history EXCEPT !.pc = IF history.count > 0 THEN "loop" ELSE "returned",
                                       !.remaining = history.count,
                                       !.result = IF history.count > 0 THEN @
                                                  ELSE [returned |-> TRUE, ids |-> <<>>]]
    /\ UNCHANGED <<files, metrics, n429, ops, last_put, got, v_in, v_out>>
    /\ unchanged_batch
    /\ unchanged_calls

\* The 429 branch of the loop: time.sleep(retry_after), then `continue` with
\* start and remaining as they are.
sleep_and_continue_gives_up(h, r) == [h EXCEPT !.pc = "raised", !.error = "HTTPError"]

sleep_and_continue(h, r) == [h EXCEPT !.pc = "sleeping", !.slept = Append(@, retry_after(r))]

\* One pass of the loop: the request for the next page and its answer r.
HistoryRequest(r) ==
    /\ mode = "history"
    /\ history.pc = "loop"
    /\ Is429(r) => n429 < MaxHistory429
    /\ metrics' = make_api_request_metrics(metrics, r, "match_ids")
    /\ n429' = IF Is429(r) THEN n429 + 1 ELSE n429
    /\ LET batch_count == Min(max_per_request, history.remaining)
           h == [history EXCEPT
                    !.requests = @ + 1,
                    !.asked = Append(@, [start |-> history.start, count |-> batch_count,
                                         answer |-> HistoryAnswer(r),
                                         header |-> IF Is429(r) THEN r.retry_after
                                                    ELSE <<>>])]
       IN  history' =
             CASE r.kind = "ok" /\ r.body = "list" ->
                    LET more == r.ids >= batch_count
                                /\ history.remaining - batch_count > 0
                        ids == Append(history.all_match_ids,
                                      [start |-> history.start, n |-> r.ids])
                    IN  [h EXCEPT
                           !.all_match_ids = ids,
                           !.start = IF r.ids < batch_count THEN @ ELSE @ + batch_count,
                           !.remaining = IF r.ids < batch_count THEN @ ELSE @ - batch_count,
                           !.pc = IF more THEN "loop" ELSE "returned",
                           !.result = IF more THEN @ ELSE [returned |-> TRUE, ids |-> ids]]
               [] r.kind = "ok" -> [h EXCEPT !.pc = "raised", !.error = "ValueError"]
               [] history_retries(r) -> sleep_and_continue(h, r)
               [] r.kind = "http_error" -> [h EXCEPT !.pc = "raised", !.error = "HTTPError"]
               [] OTHER -> [h EXCEPT !.pc = "raised", !.error = "RequestException"]
    /\ UNCHANGED <<files, ops, last_put, got, v_in, v_out>>
    /\ unchanged_batch
    /\ unchanged_calls

\* time.sleep(retry_after) is over: `continue`.
HistoryWake ==
    /\ mode = "history"
    /\ history.pc = "sleeping"
    /\ history' = [history EXCEPT !.pc = "loop"]
    /\ UNCHANGED <<files, metrics, n429, ops, last_put, got, v_in, v_out>>
    /\ unchanged_batch
    /\ unchanged_calls

InitHistory ==
    /\ mode = "history"
    /\ files = [id \in Ids |-> Absent]
    /\ files0 = files
    /\ InitNoBatch
    /\ ops = 0
    /\ last_put = [id \in Ids |-> NoPut]
    /\ got = NoLoad
    /\ v_in = JNull
    /\ v_out = NoResult
    /\ history \in {NewHistory(c) : c \in Counts}
    /\ call = NoCall
    /\ export = NoExport
    /\ ensure = NoEnsure

NextHistory ==
    \/ HistoryCall
    \/ \E r \in HistoryResponses(Min(max_per_request, history.remaining)) : HistoryRequest(r)
    \/ HistoryWake

SpecHistory == InitHistory /\ [][NextHistory]_vars

(***************************************************************************)
(* Properties of the coordinators.                                         *)
(***************************************************************************)
\* The position is the only one of the batch that holds its id.
Once(i) == \A j \in Positions : match_ids[j] = match_ids[i] => j = i

\* The positions of the batch that ended as one of the outcomes.
Ended(outcomes) == {i \in Positions : task[i].outcome \in outcomes}

\* What processing the id at position i gives when nothing but the id's own
\* cache file, the answers to its own requests and the end of its own write
\* is looked at.
OwnOutcome(i) ==
    LET lk == IF use_cache THEN load_cached_match_data(files0[match_ids[i]])
              ELSE [kind |-> "skip"]
    IN  CASE lk.kind = "data" -> "cached"
          [] lk.kind = "raise" -> "failed"
          [] OTHER -> IF task[i].m = "ok" /\ task[i].wres = "ok" THEN "stored" ELSE "failed"

\* C1: in process_matches_async with concurrency K >= 1, at every instant at
\* most K ids have acquired the semaphore and not yet released it, whatever
\* the size of the batch; the semaphore's value is K less the holders.
C1_AtMostKHoldTheSemaphore ==
    (mode = "async" /\ concurrency >= 1) =>
        /\ Cardinality(Holders) <= concurrency
        /\ semaphore = concurrency - Cardinality(Holders)

\* One id holds the only permit and another id of the batch waits for it.
C1_Witness ==
    /\ mode = "async"
    /\ concurrency = 1
    /\ Len(match_ids) > concurrency
    /\ Cardinality(Holders) = 1
    /\ \E i \in Positions : task[i].pc = "pending"

\* C2: in both coordinators a failure while one id is processed (upstream
\* HTTP error, transport error, body that is no object, error of the cache
\* write or read) is counted as one failure of that id and of no other: when
\* the batch is over every id was attempted once, each id's outcome is the
\* one its own inputs give, and the counts are the counts of the outcomes.
C2_FailureIsIsolated ==
    completed =>
        /\ \A i \in Positions :
              /\ task[i].runs = 1
              /\ task[i].lookup # "none"
              /\ task[i].lookup \in {"skipped", "miss"} => task[i].mreqs >= 1
              /\ Once(i) => task[i].outcome = OwnOutcome(i)
        /\ failed = Cardinality(Ended({"failed"}))
        /\ successful = Cardinality(Ended({"cached", "stored"}))

\* The first id of the batch failed and the id after it was fetched and stored.
C2_Witness ==
    /\ completed
    /\ Len(match_ids) = 2
    /\ task[1].outcome = "failed"
    /\ task[1].mlast \in {"http_error", "transport_error", "ok_nonobject", "rate_limited"}
    /\ task[2].outcome = "stored"
    /\ failed = 1
    /\ successful = 1

\* What holds when a coordinator has returned.
C3_Final ==
    /\ \A i \in Positions : task[i].pc = "done" /\ task[i].runs = 1
    /\ successful + failed = Len(match_ids)
    /\ mode = "async" => semaphore = concurrency

\* Some action of Next can be taken: the loop of process_matches has an id
\* left or has yet to return; a task can enter the semaphore; a request is
\* in flight (upstream can answer it), a sleep can end, or both fetches of a
\* task are over; asyncio.gather can return.
Runnable ==
    \/ mode = "sync" /\ (idx <= Len(match_ids) \/ ~completed)
    \/ /\ mode = "async"
       /\ \/ \E i \in Positions : task[i].pc = "pending" /\ semaphore_free(semaphore)
          \/ \E i \in Positions :
                /\ task[i].pc = "fetching"
                /\ \/ task[i].m \in {"inflight", "sleeping"}
                   \/ task[i].t \in {"inflight", "sleeping"}
                   \/ task[i].m \in {"ok", "err"} /\ task[i].t \in {"some", "none"}
          \/ AllDone /\ ~completed

\* How far the run has come: each step of Next adds to it.
Rank(tk) ==
    (CASE tk.pc = "pending" -> 0 [] tk.pc = "fetching" -> 1 [] OTHER -> 2)
    + 2 * tk.mreqs + (IF tk.m \in {"sleeping", "ok", "err"} THEN 1 ELSE 0)
    + 2 * tk.treqs + (IF tk.t \in {"sleeping", "some", "none"} THEN 1 ELSE 0)

RECURSIVE SumRank(_)
SumRank(n) == IF n = 0 THEN 0 ELSE Rank(task[n]) + SumRank(n - 1)

Progress == idx + (IF completed THEN 1 ELSE 0) + SumRank(Len(match_ids))

ProgressBound == 2 + Len(match_ids) * (13 + 4 * Max429)

C4_HitIssuesNoRequestAndNoWrite ==
    /\ \A i \in Positions :
          (use_cache /\ task[i].seen = "valid") =>
              /\ task[i].lookup = "hit"
              /\ task[i].mreqs = 0
              /\ task[i].treqs = 0
              /\ task[i].writes = 0
              /\ task[i].outcome = "cached"
              /\ Once(i) => files[match_ids[i]] = files0[match_ids[i]]
    /\ metrics.cache_hits = Cardinality({i \in Positions : task[i].lookup = "hit"})
    /\ cached = Cardinality(Ended({"cached"}))
    /\ cached = metrics.cache_hits
    /\ successful >= cached
    /\ (\A i \in Positions : task[i].lookup \in {"none", "hit"}) =>
          metrics.total_requests = 0

\* A batch of two: one id was served from the cache, the other was fetched.
C4_Witness ==
    /\ completed
    /\ use_cache
    /\ Len(match_ids) = 2
    /\ \E i \in Positions : task[i].lookup = "hit" /\ task[i].outcome = "cached"
    /\ \E i \in Positions : task[i].lookup = "miss" /\ task[i].mreqs >= 1
    /\ metrics.cache_hits = 1
    /\ cached = 1

\* C5: an id not served from the cache, whose match request upstream answers
\* with status 200 and a JSON object, and whose cache write does not fail, is
\* fetched and then written to the cache exactly once: afterwards the cache
\* entry is the fetched payload (with the timeline, when there is one) and
\* the id is counted as successful; in process_matches and in
\* process_matches_async.
C5_FetchedIdIsStored ==
    \A i \in Positions :
        ( /\ task[i].pc = "done"
          /\ task[i].lookup \in {"skipped", "miss"}
          /\ task[i].mlast = "ok_object"
          /\ task[i].wres \in {"none", "ok"} ) =>
            /\ task[i].mreqs >= 1
            /\ task[i].writes = 1
            /\ task[i].outcome = "stored"
            /\ Once(i) =>
                  /\ files[match_ids[i]].exists
                  /\ files[match_ids[i]].utf8
                  /\ json_load(files[match_ids[i]].toks) =
                        [ok |-> TRUE, v |-> Combine(task[i].mdata, task[i].tdata)]

\* Some position of the batch holding the id wrote the id's cache file.
Written(id) == \E j \in Positions : match_ids[j] = id /\ task[j].writes > 0

\* The batch began on an empty cache, with use_cache off, and is over.
C6_FreshBatchIsOver ==
    /\ completed
    /\ ~use_cache
    /\ \A id \in Ids : files0[id] = Absent

\* An id whose match fetch failed is not written and is counted as failed;
\* unless another position of the batch wrote it, its cache entry is as it
\* was before the batch.
C6_FailedFetchWritesNothing ==
    \A i \in Positions :
        (task[i].pc = "done" /\ task[i].m = "err") =>
            /\ task[i].writes = 0
            /\ task[i].outcome = "failed"
            /\ ~Written(match_ids[i]) => files[match_ids[i]] = files0[match_ids[i]]

\* C6 as stated: an id whose match fetch fails gets no cache write, its
\* cache entry stays as it was and it is counted as failed; after a batch run
\* with use_cache off on an empty cache, the cache holds exactly the ids
\* whose fetch succeeded.
C6_CacheHoldsExactlyTheFetchedIds ==
    /\ C6_FailedFetchWritesNothing
    /\ C6_FreshBatchIsOver =>
          \A id \in Ids :
              files[id].exists <=>
                  \E i \in Positions : match_ids[i] = id /\ task[i].m = "ok"

\* C6, amended: as above, but after the batch the cache holds exactly the
\* ids of which a fetch succeeded and whose cache file could then be opened
\* for the write.
C6_CacheHoldsTheFetchedIdsThatCouldBeWritten ==
    /\ C6_FailedFetchWritesNothing
    /\ C6_FreshBatchIsOver =>
          \A id \in Ids :
              files[id].exists <=>
                  \E i \in Positions : /\ match_ids[i] = id
                                       /\ task[i].m = "ok"
                                       /\ task[i].wres # "open_error"

\* A batch of two on an empty cache, use_cache off: the fetch of the first
\* id failed, the second id was fetched and is the only one in the cache.
C6_Witness ==
    /\ C6_FreshBatchIsOver
    /\ Len(match_ids) = 2
    /\ match_ids[1] # match_ids[2]
    /\ task[1].m = "err"
    /\ task[1].outcome = "failed"
    /\ task[2].m = "ok"
    /\ ~files[match_ids[1]].exists
    /\ files[match_ids[2]].exists

\* C9: with use_cache on, a cache file that exists but is corrupt (content
\* that cannot be read as JSON, a JSON value that is no object, an object
\* that fails validation) is treated as a missing one: the lookup returns
\* None and records a miss, the id is fetched again, and the corrupt file by
\* itself neither raises out of the coordinator nor makes the id failed.
C9_CorruptFileIsAMiss ==
    /\ \A i \in Positions :
          ( /\ use_cache
            /\ task[i].runs = 1
            /\ task[i].seen \in {"undecodable", "unparsable", "nonobject", "invalid"} ) =>
              /\ task[i].lookup = "miss"
              /\ task[i].mreqs >= 1
              /\ task[i].outcome = "failed" =>
                    (task[i].m = "err" \/ task[i].wres \in {"open_error", "write_error"})
    /\ metrics.cache_misses = Cardinality({i \in Positions : task[i].lookup = "miss"})

(***************************************************************************)
(* Properties of the cache store, the validation and the history lister.   *)
(***************************************************************************)
\* C7: for every payload that passes the cache validation and every id, a
\* load that follows save_match_data(id, p) returns a record equal to p; after
\* any sequence of saves to an id (on top of any earlier entry) the load
\* returns the payload of the last save, in full and with nothing of the
\* earlier entries.  A saved payload that fails the validation loads as None.
C7_LoadReturnsTheLastSave ==
    (got # NoLoad /\ last_put[got.id].w = "ok") =>
        LET p == last_put[got.id].data
        IN  IF validate_match_data(p)
            THEN got.lk.kind = "data" /\ got.lk.data = p
            ELSE got.lk.kind = "none"

\* A match without timeline was saved over an entry with a timeline and then
\* loaded: what came back has no timeline.
C7_Witness ==
    /\ got # NoLoad
    /\ files0[got.id] = Text(json_dump(FullPayload(got.id)))
    /\ last_put[got.id] = [w |-> "ok", data |-> MatchPayload(got.id)]
    /\ got.lk.kind = "data"
    /\ got.lk.data = MatchPayload(got.id)
    /\ ops = MaxOps

\* p is an object with both keys ...
HasBothKeys(p) == IsObject(p) /\ {"info", "metadata"} \subseteq DOMAIN p.o

\* ... whose values are objects
BothValuesAreObjects(p) ==
    HasBothKeys(p) /\ IsObject(p.o["info"]) /\ IsObject(p.o["metadata"])

C10_NonPositiveCountRaisesBeforeAnyRequest ==
    (mode = "history" /\ history.count <= 0 /\ history.pc # "called") =>
        /\ history.pc = "raised"
        /\ history.error = "ValueError"
        /\ history.requests = 0
        /\ history.all_match_ids = <<>>
        /\ metrics = NewMetrics

\* The call with count = 0 has raised.
C10_Witness ==
    /\ mode = "history"
    /\ history.count = 0
    /\ history.pc = "raised"
    /\ history.error = "ValueError"
    /\ history.requests = 0

(***************************************************************************)
(* Properties of the history lister.                                       *)
(***************************************************************************)
\* The ids of a page: the positions start, start + 1, .. of upstream's list.
PageIds(page) == [k \in 1..page.n |-> page.start + k - 1]

RECURSIVE Flatten(_)
Flatten(pages) ==
    IF pages = <<>> THEN <<>>
    ELSE Flatten(SubSeq(pages, 1, Len(pages) - 1)) \o PageIds(pages[Len(pages)])

\* The first k ids of upstream's list, in upstream's order.
FirstIds(k) == [j \in 1..k |-> j - 1]

\* The requests that were answered with a list, in the order they were sent.
IsListAnswer(a) == a.answer = "list"

ListAsked == SelectSeq(history.asked, IsListAnswer)

CeilDiv(a, b) == (a + b - 1) \div b

\* No page came back with fewer ids than were asked for.
NoShortPage ==
    \A k \in 1..Len(history.all_match_ids) :
        history.all_match_ids[k].n = ListAsked[k].count

\* C11: for every count C > 0 fetch_match_history returns at most C ids, in
\* upstream's order; every request asks for at least 1 and at most 100 ids,
\* the first at offset 0 and each later one at the offset of the one before,
\* advanced by its batch when that one was answered with a list; and when no
\* page is short, ceil(C / 100) requests are answered with a list (the 429
\* answers not counted) and exactly C ids are returned.
C11_PagesOfAtMostAHundred ==
    (mode = "history" /\ history.count > 0) =>
        /\ Len(history.asked) = history.requests
        /\ \A k \in 1..Len(history.asked) :
              /\ history.asked[k].count \in 1..max_per_request
              /\ history.asked[k].start =
                    IF k = 1 THEN 0
                    ELSE history.asked[k - 1].start
                         + (IF history.asked[k - 1].answer = "list"
                            THEN history.asked[k - 1].count ELSE 0)
              /\ history.asked[k].start = max_per_request * Len(SelectSeq(
                    SubSeq(history.asked, 1, k - 1), IsListAnswer))
        /\ Len(ListAsked) = Len(history.all_match_ids)
        /\ history.result.returned =>
              /\ history.pc = "returned"
              /\ Len(Flatten(history.result.ids)) <= history.count
              /\ Flatten(history.result.ids) = FirstIds(Len(Flatten(history.result.ids)))
              /\ NoShortPage =>
                    /\ Len(ListAsked) = CeilDiv(history.count, max_per_request)
                    /\ Len(Flatten(history.result.ids)) = history.count

\* The call with the largest count has returned all its ids, from three
\* pages: 100, 100 and the rest.
C11_Witness ==
    /\ mode = "history"
    /\ history.count = MaxCount
    /\ history.result.returned
    /\ NoShortPage
    /\ Len(ListAsked) = 3
    /\ ListAsked[3].start = 2 * max_per_request
    /\ Len(Flatten(history.result.ids)) = MaxCount

\* The requests that were answered with status 429, in the order they were sent.
IsRateLimited(a) == a.answer = "rate_limited"

RateLimited == SelectSeq(history.asked, IsRateLimited)

\* C12: in fetch_match_history a page request answered with 429 is followed
\* by one sleep of the Retry-After value of that answer (2 without the
\* header) and then by a request with the same offset and the same count; the
\* ids of the earlier pages are kept, and the result holds each id once, no
\* page skipped and none doubled.
C12_RateLimitedPageIsAskedAgain ==
    (mode = "history" /\ history.count > 0) =>
        /\ Len(history.slept) = Len(RateLimited)
        /\ \A j \in 1..Len(RateLimited) :
              history.slept[j] = IF RateLimited[j].header = <<>>
                                 THEN DEFAULT_RETRY_AFTER
                                 ELSE RateLimited[j].header[1]
        /\ \A k \in 1..Len(history.asked) :
              IsRateLimited(history.asked[k]) =>
                  IF k = Len(history.asked)
                  THEN /\ history.pc \in {"sleeping", "loop"}
                       /\ history.start = history.asked[k].start
                       /\ Min(max_per_request, history.remaining) = history.asked[k].count
                  ELSE /\ history.asked[k + 1].start = history.asked[k].start
                       /\ history.asked[k + 1].count = history.asked[k].count
        /\ Flatten(history.all_match_ids) = FirstIds(Len(Flatten(history.all_match_ids)))
        /\ \A k \in 1..Len(history.all_match_ids) :
              history.all_match_ids[k].start = ListAsked[k].start
        /\ history.result.returned => history.result.ids = history.all_match_ids

\* The second page of the largest count was answered with 429 and a
\* Retry-After header, asked for again after the sleep, and the call has
\* returned every id once.
C12_Witness ==
    /\ mode = "history"
    /\ history.count = MaxCount
    /\ history.result.returned
    /\ Len(history.asked) = 4
    /\ IsRateLimited(history.asked[2])
    /\ history.asked[2].start = max_per_request
    /\ history.asked[3].start = max_per_request
    /\ history.slept = <<MaxRetryAfter>>
    /\ Flatten(history.result.ids) = FirstIds(MaxCount)

\* The answers after which fetch_match_history raises, and what it raises.
FatalAnswers == {"http_error", "transport_error", "no_list"}

RaisedFor(answer) ==
    CASE answer = "http_error" -> "HTTPError"
      [] answer = "transport_error" -> "RequestException"
      [] OTHER -> "ValueError"

\* C13: in fetch_match_history an HTTP error other than 429, a transport
\* error or an answer that is no list, on whatever page, is raised to the
\* caller at once: it is the last request of the call, no sleep follows it,
\* and the call returns nothing, the ids of the earlier pages included.
C13_OtherErrorsAreFatal ==
    mode = "history" =>
        /\ \A k \in 1..Len(history.asked) :
              history.asked[k].answer \in FatalAnswers =>
                  /\ k = Len(history.asked)
                  /\ history.pc = "raised"
                  /\ history.error = RaisedFor(history.asked[k].answer)
                  /\ history.result = NotReturned
                  /\ Len(history.slept) = Len(RateLimited)
        /\ (history.pc = "raised" /\ history.count > 0) =>
              /\ history.asked # <<>>
              /\ history.asked[Len(history.asked)].answer \in FatalAnswers

\* The second page was answered with an HTTP error: the call has raised and
\* the hundred ids of the first page are lost.
C13_Witness ==
    /\ mode = "history"
    /\ history.pc = "raised"
    /\ history.error = "HTTPError"
    /\ Len(history.asked) = 2
    /\ Len(Flatten(history.all_match_ids)) = max_per_request
    /\ history.result = NotReturned

\* ---------------------------------------------------------------------
\* Outstanding requests of the asynchronous coordinator
\* ---------------------------------------------------------------------

\* Requests sent and not yet answered: every task holding the semaphore runs
\* its match request and its timeline request as two concurrent tasks.
Outstanding ==
    Cardinality({i \in DOMAIN task : task[i].m = "inflight"})
    + Cardinality({i \in DOMAIN task : task[i].t = "inflight"})

\* C18: during process_matches_async with concurrency K, the number of HTTP
\* requests outstanding at the same moment (match requests plus timeline
\* requests) never exceeds K.
C18_OutstandingRequestsAtMostK ==
    (mode = "async" /\ concurrency >= 1) => Outstanding <= concurrency

(***************************************************************************)
(* Single calls of the fetchers.  The variable call holds one call of one  *)
(* of the functions below, from its first request to its return or raise.  *)
(***************************************************************************)
\* 429 answers upstream gives within one call
MaxFetch429 == 3

\* the largest max_retries _retryable_get is called with
MaxGetRetries == 2

FetchFns ==
    {"fetch_match_data", "fetch_match_with_timeline", "fetch_match_data_async",
     "fetch_timeline_data_async", "fetch_match_with_timeline_async",
     "async_fetch.fetch_match_with_timeline", "fetch_puuid_by_riot_id",
     "async_fetch._retryable_get"}

\* the functions that request the match resource (for fetch_puuid_by_riot_id
\* the account resource takes its place), and the timeline resource
UsesMatch(fn) == fn # "fetch_timeline_data_async"

UsesTimeline(fn) ==
    fn \in {"fetch_match_with_timeline", "fetch_timeline_data_async",
            "fetch_match_with_timeline_async", "async_fetch.fetch_match_with_timeline"}

\* the functions that go through make_api_request, and through the
\* coordinator's httpx session (async_fetch goes through _retryable_get)
IsSync(fn) == fn \in {"fetch_match_data", "fetch_match_with_timeline", "fetch_puuid_by_riot_id"}

IsLeagueAsync(fn) ==
    fn \in {"fetch_match_data_async", "fetch_timeline_data_async",
            "fetch_match_with_timeline_async"}

\* Upstream's failures: a 429 carries a Retry-After header or none.
FetchFailures ==
    {[kind |-> "http_error", status |-> 429, retry_after |-> h] : h \in RetryAfterHeaders}
        \cup {[kind |-> "http_error", status |-> st, retry_after |-> <<>>] :
                 st \in ErrorStatuses \ {429}}
        \cup {TransportError}

CallMatchResponses ==
    {OkResponse(b) : b \in {MatchPayload("m1"), PartialObj, JArr(<<>>)}} \cup FetchFailures

CallTimelineResponses ==
    {OkResponse(b) : b \in {TimelinePayload, EmptyObj, JArr(<<>>)}} \cup FetchFailures

AccountPayload == JObj([puuid |-> JStr("p1"), gameName |-> JStr("g")])

AccountResponses ==
    {OkResponse(b) : b \in {AccountPayload, PartialObj, JArr(<<>>)}} \cup FetchFailures

\* What one answer does to the fetch of a resource: st is where the fetch is
\* afterwards ("ok"/"some": it returned data; "none": it returned None;
\* "err": it raised err; "sleeping": it sleeps for sleep seconds and asks
\* again), left is the retries _retryable_get has left.
Outcome(st, data, err, sleep, left) ==
    [st |-> st, data |-> data, err |-> err, sleep |-> sleep, left |-> left]

\* the exception make_api_request raises
SyncException(r) ==
    CASE r.kind = "ok" -> "none"
      [] r.kind = "http_error" -> "HTTPError"
      [] OTHER -> "RequestException"

\* fetch_match_data: one request; every failure is logged and raised again.
fetch_match_data(r, left) ==
    IF fetch_match_data_ok(r) THEN Outcome("ok", r.body, "none", <<>>, left)
    ELSE Outcome("err", JNull,
                 IF make_api_request_returns(r) THEN "ValueError" ELSE SyncException(r),
                 <<>>, left)

\* fetch_timeline_data (synchronous): every failure becomes None.
fetch_timeline_data_outcome(r, left) ==
    IF fetch_timeline_data(r) = JNull THEN Outcome("none", JNull, "none", <<>>, left)
    ELSE Outcome("some", r.body, "none", <<>>, left)

\* fetch_puuid_by_riot_id: the value under "puuid"; ValueError for a 404 and
\* for a body without "puuid"; every other failure raised again.
fetch_puuid_by_riot_id_propagates_404(r, left) ==
    IF make_api_request_returns(r)
    THEN IF IsObject(r.body) /\ "puuid" \in DOMAIN r.body.o
         THEN Outcome("ok", r.body.o["puuid"], "none", <<>>, left)
         ELSE Outcome("err", JNull, "ValueError", <<>>, left)
    ELSE Outcome("err", JNull, SyncException(r), <<>>, left)

fetch_puuid_by_riot_id(r, left) ==
    IF make_api_request_returns(r)
    THEN IF IsObject(r.body) /\ "puuid" \in DOMAIN r.body.o
         THEN Outcome("ok", r.body.o["puuid"], "none", <<>>, left)
         ELSE Outcome("err", JNull, "ValueError", <<>>, left)
    ELSE IF r.kind = "http_error" /\ r.status = 404
         THEN Outcome("err", JNull, "ValueError", <<>>, left)
         ELSE Outcome("err", JNull, SyncException(r), <<>>, left)

\* fetch_match_data_async and fetch_timeline_data_async: a 429 sleeps and
\* calls the function again, whatever the number of 429s before it.
fetch_match_data_async(r, left) ==
    LET st == fetch_match_data_async_step(r)
    IN  CASE st = "ok" -> Outcome("ok", r.body, "none", <<>>, left)
          [] st = "sleeping" -> Outcome("sleeping", JNull, "none", <<retry_after(r)>>, left)
          [] OTHER -> Outcome("err", JNull, AsyncException(r), <<>>, left)

fetch_timeline_data_async(r, left) ==
    LET st == fetch_timeline_data_async_step(r)
    IN  CASE st = "some" -> Outcome("some", r.body, "none", <<>>, left)
          [] st = "sleeping" -> Outcome("sleeping", JNull, "none", <<retry_after(r)>>, left)
          [] OTHER -> Outcome("none", JNull, "none", <<>>, left)

\* _retryable_get: a 429 is asked again after a sleep while retries are left
\* (max_retries = 1); then raise_for_status.
max_retries == 1

retryable_get_retries_every_429(r, left) ==
    IF Is429(r)
    THEN Outcome("sleeping", JNull, "none", <<retry_after(r)>>, left)
    ELSE CASE r.kind = "ok" -> Outcome("ok", r.body, "none", <<>>, left)
           [] r.kind = "http_error" -> Outcome("err", JNull, "HTTPStatusError", <<>>, left)
           [] OTHER -> Outcome("err", JNull, "RequestError", <<>>, left)

retryable_get(r, left) ==
    IF Is429(r) /\ left > 0
    THEN Outcome("sleeping", JNull, "none", <<retry_after(r)>>, left - 1)
    ELSE CASE r.kind = "ok" -> Outcome("ok", r.body, "none", <<>>, left)
           [] r.kind = "http_error" -> Outcome("err", JNull, "HTTPStatusError", <<>>, left)
           [] OTHER -> Outcome("err", JNull, "RequestError", <<>>, left)

\* data.get(key, {})
GetOrEmpty(data, key) == IF key \in DOMAIN data.o THEN data.o[key] ELSE EmptyObj

\* {"metadata": data.get("metadata", {}), "info": data.get("info", {})}
Reduced(data) ==
    JObj([k \in {"metadata", "info"} |-> GetOrEmpty(data, k)])

\* async_fetch.fetch_match: the reduced body, with the reduced "timeline" of
\* the body when it has one.
fetch_match(r, left) ==
    LET g == retryable_get(r, left)
    IN  IF g.st # "ok" THEN g
        ELSE IF ~IsObject(g.data) THEN Outcome("err", JNull, "AttributeError", <<>>, left)
        ELSE IF "timeline" \in DOMAIN g.data.o /\ IsObject(g.data.o["timeline"])
        THEN Outcome("ok", Combine(Reduced(g.data), Reduced(g.data.o["timeline"])),
                     "none", <<>>, left)
        ELSE Outcome("ok", Reduced(g.data), "none", <<>>, left)

\* async_fetch.fetch_timeline: None for a 404, any other failure raised again.
fetch_timeline(r, left) ==
    LET g == retryable_get(r, left)
    IN  IF g.st = "sleeping" THEN g
        ELSE IF g.st = "err"
        THEN IF g.err = "HTTPStatusError" /\ r.status = 404
             THEN Outcome("none", JNull, "none", <<>>, left)
             ELSE g
        ELSE IF ~IsObject(g.data) THEN Outcome("err", JNull, "AttributeError", <<>>, left)
        ELSE Outcome("some", Reduced(g.data), "none", <<>>, left)

\* The fetch of the match resource and of the timeline resource, by function.
MatchOutcome(fn, r, left) ==
    CASE fn \in {"fetch_match_data", "fetch_match_with_timeline"} -> fetch_match_data(r, left)
      [] fn = "fetch_puuid_by_riot_id" -> fetch_puuid_by_riot_id(r, left)
      [] IsLeagueAsync(fn) -> fetch_match_data_async(r, left)
      [] fn = "async_fetch._retryable_get" -> retryable_get(r, left)
      [] OTHER -> fetch_match(r, left)

TimelineOutcome(fn, r, left) ==
    CASE fn = "fetch_match_with_timeline" -> fetch_timeline_data_outcome(r, left)
      [] IsLeagueAsync(fn) -> fetch_timeline_data_async(r, left)
      [] OTHER -> fetch_timeline(r, left)

\* the metrics after one request: async_fetch keeps none
CallMetrics(fn, m, r, request_type) ==
    CASE IsSync(fn) -> make_api_request_metrics(m, r, request_type)
      [] IsLeagueAsync(fn) -> async_request_metrics(m, r, request_type)
      [] OTHER -> m

MatchRequestType(fn) == IF fn = "fetch_puuid_by_riot_id" THEN "puuid" ELSE "match_details"

MatchAnswers(fn) == IF fn = "fetch_puuid_by_riot_id" THEN AccountResponses ELSE CallMatchResponses

NewCall(fn) ==
    [fn |-> fn,
     pc |-> "start",         \* "start", "running", "returned", "raised"
     m |-> "idle",           \* match fetch: "inflight", "sleeping", "ok", "err"
     t |-> "idle",           \* timeline fetch: "inflight", "sleeping", "some", "none", "err"
     mreqs |-> 0,            \* requests issued for the match resource
     treqs |-> 0,            \* requests issued for the timeline resource
     msleeps |-> <<>>,       \* durations slept by the match fetch
     tsleeps |-> <<>>,       \* durations slept by the timeline fetch
     retries |-> max_retries, \* the max_retries _retryable_get is called with
     mleft |-> max_retries,  \* retries _retryable_get has left
     tleft |-> max_retries,
     m429 |-> 0,             \* 429 answers to the match requests
     t429 |-> 0,             \* 429 answers to the timeline requests
     mfirst |-> NoResponse,  \* the first and the last answer to each
     mlast |-> NoResponse,
     tlast |-> NoResponse,
     mdata |-> JNull,        \* what each fetch returned, or the exception it raised
     tdata |-> JNull,
     merr |-> "none",
     terr |-> "none",
     result |-> JNull,       \* what the call returned
     error |-> "none"]       \* the exception the call raised

Returned(c, v) == [c EXCEPT !.pc = "returned", !.result = v]

Raised(c, e) == [c EXCEPT !.pc = "raised", !.error = e]

\* The call ends as soon as its fetches allow: a single fetch with its
\* request; the synchronous pair when the match fetch raises or the timeline
\* fetch is over; gather(return_exceptions=True) when both are over;
\* gather() of async_fetch with the first exception or when both are over.
Settle(c) ==
    LET both == c.m \in {"ok", "err"} /\ c.t \in {"some", "none", "err"}
    IN  CASE c.fn \in {"fetch_match_data", "fetch_match_data_async", "fetch_puuid_by_riot_id",
                        "async_fetch._retryable_get"} ->
                 IF c.m = "ok" THEN Returned(c, c.mdata)
                 ELSE IF c.m = "err" THEN Raised(c, c.merr)
                 ELSE c
          [] c.fn = "fetch_timeline_data_async" ->
                 IF c.t \in {"some", "none"} THEN Returned(c, c.tdata) ELSE c
          [] c.fn = "fetch_match_with_timeline" ->
                 IF c.m = "err" THEN Raised(c, c.merr)
                 ELSE IF both THEN Returned(c, Combine(c.mdata, c.tdata))
                 ELSE c
          [] c.fn = "fetch_match_with_timeline_async" ->
                 IF ~both THEN c
                 ELSE IF c.m = "err" THEN Raised(c, c.merr)
                 ELSE Returned(c, Combine(c.mdata, c.tdata))
          [] OTHER ->
                 IF c.m = "err" THEN Raised(c, c.merr)
                 ELSE IF c.t = "err" THEN Raised(c, c.terr)
                 ELSE IF both THEN Returned(c, Combine(c.mdata, c.tdata))
                 ELSE c

unchanged_by_call ==
    /\ UNCHANGED <<files, n429, ops, last_put, got, v_in, v_out, history, export, ensure>>
    /\ unchanged_batch

\* The function is called: it sends its first request, or, under gather, the
\* first request of each of its two fetches.
CallStart ==
    /\ mode = "fetch"
    /\ call.pc = "start"
    /\ LET fn == call.fn
           match_now == UsesMatch(fn)
           timeline_now == UsesTimeline(fn) /\ fn # "fetch_match_with_timeline"
       IN  call' = [call EXCEPT
                      !.pc = "running",
                      !.m = IF match_now THEN "inflight" ELSE @,
                      !.mreqs = IF match_now THEN 1 ELSE 0,
                      !.t = IF timeline_now THEN "inflight" ELSE @,
                      !.treqs = IF timeline_now THEN 1 ELSE 0]
    /\ UNCHANGED metrics
    /\ unchanged_by_call

\* Upstream answers the match request with r.  In the synchronous pair a
\* match fetch that returned is followed by the timeline request.
CallMatchRespond(r) ==
    /\ mode = "fetch"
    /\ call.pc = "running"
    /\ call.m = "inflight"
    /\ Is429(r) => call.m429 + call.t429 < MaxFetch429
    /\ LET fn == call.fn
           o == MatchOutcome(fn, r, call.mleft)
           next == fn = "fetch_match_with_timeline" /\ o.st = "ok"
       IN  /\ call' = Settle([call EXCEPT
                         !.m = o.st,
                         !.mdata = o.data,
                         !.merr = o.err,
                         !.msleeps = @ \o o.sleep,
                         !.mleft = o.left,
                         !.m429 = IF Is429(r) THEN @ + 1 ELSE @,
                         !.mfirst = IF @ = NoResponse THEN r ELSE @,
                         !.mlast = r,
                         !.t = IF next THEN "inflight" ELSE @,
                         !.treqs = IF next THEN 1 ELSE @])
           /\ metrics' = CallMetrics(fn, metrics, r, MatchRequestType(fn))
    /\ unchanged_by_call

\* Upstream answers the timeline request with r.
CallTimelineRespond(r) ==
    /\ mode = "fetch"
    /\ call.pc = "running"
    /\ call.t = "inflight"
    /\ Is429(r) => call.m429 + call.t429 < MaxFetch429
    /\ LET fn == call.fn
           o == TimelineOutcome(fn, r, call.tleft)
       IN  /\ call' = Settle([call EXCEPT
                         !.t = o.st,
                         !.tdata = o.data,
                         !.terr = o.err,
                         !.tsleeps = @ \o o.sleep,
                         !.tleft = o.left,
                         !.t429 = IF Is429(r) THEN @ + 1 ELSE @,
                         !.tlast = r])
           /\ metrics' = CallMetrics(fn, metrics, r, "timeline")
    /\ unchanged_by_call

\* The sleep of a fetch is over: it sends its request again.
CallMatchWake ==
    /\ mode = "fetch"
    /\ call.pc = "running"
    /\ call.m = "sleeping"
    /\ call' = [call EXCEPT !.m = "inflight", !.mreqs = @ + 1]
    /\ UNCHANGED metrics
    /\ unchanged_by_call

CallTimelineWake ==
    /\ mode = "fetch"
    /\ call.pc = "running"
    /\ call.t = "sleeping"
    /\ call' = [call EXCEPT !.t = "inflight", !.treqs = @ + 1]
    /\ UNCHANGED metrics
    /\ unchanged_by_call

InitFetch ==
    /\ mode = "fetch"
    /\ files = [id \in Ids |-> Absent]
    /\ files0 = files
    /\ InitNoBatch
    /\ ops = 0
    /\ last_put = [id \in Ids |-> NoPut]
    /\ got = NoLoad
    /\ v_in = JNull
    /\ v_out = NoResult
    /\ history = NoHistory
    /\ call \in {NewCall(fn) : fn \in FetchFns}
                \cup {[NewCall("async_fetch._retryable_get") EXCEPT !.retries = k, !.mleft = k] :
                         k \in 0..MaxGetRetries}
    /\ export = NoExport
    /\ ensure = NoEnsure

NextFetch ==
    \/ CallStart
    \/ \E r \in MatchAnswers(call.fn) : CallMatchRespond(r)
    \/ \E r \in CallTimelineResponses : CallTimelineRespond(r)
    \/ CallMatchWake
    \/ CallTimelineWake

SpecFetch == InitFetch /\ [][NextFetch]_vars

(***************************************************************************)
(* Properties of the single fetches.                                       *)
(***************************************************************************)
\* C14: in fetch_match_data_async and fetch_timeline_data_async a 429 causes
\* one sleep of the Retry-After duration and exactly one retry; a second 429
\* makes the fetch give up (error for the match, absence for the timeline),
\* so that at most two requests are issued per resource per call however
\* many 429s upstream sends.
C14_AsyncFetchRetriesExactlyOnce ==
    call.fn \in {"fetch_match_data_async", "fetch_timeline_data_async"} =>
        /\ call.mreqs <= 2 /\ call.treqs <= 2
        /\ Len(call.msleeps) <= 1 /\ Len(call.tsleeps) <= 1
        /\ call.m429 >= 2 => call.m = "err"
        /\ call.t429 >= 2 => call.t = "none"

\* C15: in the synchronous single-match fetch (fetch_match_data through
\* make_api_request) a 429 with Retry-After: r causes exactly one backoff
\* sleep of at least r and one retry of the same match id before a failure
\* of that id is reported to the caller.
C15_SyncFetchBacksOffAndRetriesOnce ==
    (call.fn = "fetch_match_data" /\ Is429(call.mfirst) /\ call.pc = "raised") =>
        /\ Len(call.msleeps) = 1
        /\ call.msleeps[1] >= retry_after(call.mfirst)
        /\ call.mreqs = 2

WithTimelineFns ==
    {"fetch_match_with_timeline", "fetch_match_with_timeline_async",
     "async_fetch.fetch_match_with_timeline"}

\* the match request was answered 2xx with a match object
MatchRequestSucceeded == call.mlast.kind = "ok" /\ IsObject(call.mlast.body)

\* the timeline fetch is over and its last request failed (404, 5xx, no
\* answer, or a 429 that is not retried)
TimelineRequestFailed ==
    /\ call.t \in {"some", "none", "err"}
    /\ call.tlast.kind \in {"http_error", "transport_error"}

HasTimeline(v) == IsObject(v) /\ "timeline" \in DOMAIN v.o

\* C16: in every fetch-with-timeline variant, when the match request succeeds
\* and the timeline request fails for any reason, the call raises nothing and
\* returns the match record without a "timeline" field; the field is present
\* only when the timeline request succeeded.
C16_TimelineFailureIsSwallowed ==
    call.fn \in WithTimelineFns =>
        /\ (MatchRequestSucceeded /\ TimelineRequestFailed) =>
               (call.pc = "returned" /\ IsObject(call.result) /\ ~HasTimeline(call.result))
        /\ (call.pc = "returned" /\ HasTimeline(call.result)) => call.tlast.kind = "ok"

CallOver == call.pc \in {"returned", "raised"}

\* C17: fetch_puuid_by_riot_id issues exactly one request per call and never
\* retries: an answer with "puuid" yields that value, a 404 yields ValueError,
\* an answer without "puuid" yields ValueError, and every other HTTP or
\* transport failure (429 included) reaches the caller as the request error
\* it was.
C17_PuuidLookupIsOneRequest ==
    call.fn = "fetch_puuid_by_riot_id" =>
        /\ call.mreqs <= 1 /\ call.msleeps = <<>> /\ call.treqs = 0
        /\ call.pc = "running" => (call.m = "inflight" /\ call.mreqs = 1)
        /\ CallOver =>
             LET r == call.mlast
             IN  /\ call.mreqs = 1
                 /\ CASE r.kind = "ok" ->
                           IF IsObject(r.body) /\ "puuid" \in DOMAIN r.body.o
                           THEN call.pc = "returned" /\ call.result = r.body.o["puuid"]
                           ELSE call.pc = "raised" /\ call.error = "ValueError"
                      [] r.kind = "http_error" ->
                           /\ call.pc = "raised"
                           /\ call.error = IF r.status = 404 THEN "ValueError" ELSE "HTTPError"
                      [] OTHER -> call.pc = "raised" /\ call.error = "RequestException"

C17_Witness ==
    /\ call.fn = "fetch_puuid_by_riot_id"
    /\ call.pc = "raised"
    /\ call.mlast.kind = "http_error"
    /\ call.mlast.status = 404
    /\ call.error = "ValueError"
    /\ call.mreqs = 1

(***************************************************************************)
(* The metrics collector on its own.  In the latency specification samples *)
(* are recorded and p95_latency is read; in the metrics specification      *)
(* every method of FetchMetrics is called and export_metrics_json writes   *)
(* the snapshot.  A read is the last step of a run, as in main.            *)
(***************************************************************************)
\* samples recorded before p95_latency is read
MaxSamples == 21

\* samples, and calls of each other method, before the export
MaxExportSamples == 2

MaxTicks == 1

SampleLatencies == {1, 2, TIMEOUT}

RequestTypes == {"match_ids", "match_details", "timeline", "puuid"}

Times == {1, 2}

SampleCap == IF mode = "latency" THEN MaxSamples ELSE MaxExportSamples

unchanged_by_metrics ==
    /\ UNCHANGED <<files, n429, ops, last_put, got, v_in, v_out, history, call, ensure>>
    /\ unchanged_batch

AddLatency(latency, request_type) ==
    /\ mode \in {"latency", "metrics"}
    /\ export = NoExport
    /\ BagCardinality(metrics.request_latencies) < SampleCap
    /\ metrics' = add_request_latency(metrics, latency, request_type)
    /\ UNCHANGED export
    /\ unchanged_by_metrics

AddCacheHit ==
    /\ mode = "metrics"
    /\ export = NoExport
    /\ metrics.cache_hits < MaxTicks
    /\ metrics' = add_cache_hit(metrics)
    /\ UNCHANGED export
    /\ unchanged_by_metrics

AddCacheMiss ==
    /\ mode = "metrics"
    /\ export = NoExport
    /\ metrics.cache_misses < MaxTicks
    /\ metrics' = add_cache_miss(metrics)
    /\ UNCHANGED export
    /\ unchanged_by_metrics

AddRetry ==
    /\ mode = "metrics"
    /\ export = NoExport
    /\ metrics.retry_count < MaxTicks
    /\ metrics' = add_retry(metrics)
    /\ UNCHANGED export
    /\ unchanged_by_metrics

StartTiming(now) ==
    /\ mode = "metrics"
    /\ export = NoExport
    /\ metrics.start_time = <<>>
    /\ metrics' = start_timing(metrics, now)
    /\ UNCHANGED export
    /\ unchanged_by_metrics

EndTiming(now) ==
    /\ mode = "metrics"
    /\ export = NoExport
    /\ metrics.end_time = <<>>
    /\ metrics' = end_timing(metrics, now)
    /\ UNCHANGED export
    /\ unchanged_by_metrics

\* The properties p95_latency and max_latency are read.
ReadP95 ==
    /\ mode = "latency"
    /\ export = NoExport
    /\ export' = [of |-> "p95_latency",
                  p95 |-> p95_latency(metrics),
                  max |-> max_latency(metrics)]
    /\ UNCHANGED metrics
    /\ unchanged_by_metrics

\* export_metrics_json: json.dump of to_dict() into the file, which is
\* written (w = "ok") or not (IOError, logged).
ExportMetricsJson(w) ==
    /\ mode = "metrics"
    /\ export = NoExport
    /\ export' = [of |-> "export_metrics_json",
                  doc |-> to_dict(metrics),
                  written |-> w = "ok"]
    /\ UNCHANGED metrics
    /\ unchanged_by_metrics

InitCollector ==
    /\ files = [id \in Ids |-> Absent]
    /\ files0 = files
    /\ InitNoBatch
    /\ InitOther

InitLatency == mode = "latency" /\ InitCollector

NextLatency ==
    \/ \E l \in SampleLatencies : AddLatency(l, "match_details")
    \/ ReadP95

SpecLatency == InitLatency /\ [][NextLatency]_vars

InitMetrics == mode = "metrics" /\ InitCollector

NextMetrics ==
    \/ \E l \in SampleLatencies \ {2}, ty \in RequestTypes : AddLatency(l, ty)
    \/ AddCacheHit
    \/ AddCacheMiss
    \/ AddRetry
    \/ \E now \in Times : StartTiming(now)
    \/ \E now \in Times : EndTiming(now)
    \/ \E w \in {"ok", "ioerror"} : ExportMetricsJson(w)

SpecMetrics == InitMetrics /\ [][NextMetrics]_vars

(***************************************************************************)
(* Properties of the metrics collector.                                    *)
(***************************************************************************)
\* the number of samples below v, and not above v
SamplesBelow(b, v) == BagCardinality([y \in {z \in BagToSet(b) : z < v} |-> b[y]])

SamplesUpTo(b, v) == BagCardinality([y \in {z \in BagToSet(b) : z <= v} |-> b[y]])

\* v is the element at index i (from 0) of the ascending samples
IsAtIndex(b, i, v) == v \in BagToSet(b) /\ SamplesBelow(b, v) <= i /\ i < SamplesUpTo(b, v)

\* C19: p95_latency is 0 without samples and otherwise the element at index
\* min(floor(0.95 n), n - 1) of the n ascending samples; it is one of the
\* samples, never exceeds max_latency, and equals max_latency for n = 1..19.
C19_P95IsTheClampedFloorIndex ==
    export.of = "p95_latency" =>
        LET b == metrics.request_latencies
            n == BagCardinality(b)
        IN  IF n = 0 THEN export.p95 = 0
            ELSE /\ \E k \in 0..n :
                       /\ 100 * k <= 95 * n
                       /\ 95 * n < 100 * (k + 1)
                       /\ IsAtIndex(b, IF k < n - 1 THEN k ELSE n - 1, export.p95)
                 /\ export.p95 \in BagToSet(b)
                 /\ export.max \in BagToSet(b)
                 /\ \A z \in BagToSet(b) : z <= export.max
                 /\ export.p95 <= export.max
                 /\ n \in 1..19 => export.p95 = export.max

C19_Witness ==
    /\ export.of = "p95_latency"
    /\ BagCardinality(metrics.request_latencies) = 21
    /\ export.p95 < export.max

\* the fields of the snapshot other than the duration
SnapshotFields ==
    {"total_requests", "cache_hits", "cache_misses", "retry_count", "avg_latency_ms",
     "p95_latency_ms", "max_latency_ms", "phase_breakdown"}

PhaseFields == {"match_ids_requests", "match_details_requests", "timeline_requests"}

\* every counter of the snapshot is the collector's counter
CountersAreTheCollectors(doc) ==
    /\ doc.total_requests = metrics.total_requests
    /\ doc.cache_hits = metrics.cache_hits
    /\ doc.cache_misses = metrics.cache_misses
    /\ doc.retry_count = metrics.retry_count
    /\ doc.phase_breakdown.match_ids_requests = metrics.match_ids_requests
    /\ doc.phase_breakdown.match_details_requests = metrics.match_details_requests
    /\ doc.phase_breakdown.timeline_requests = metrics.timeline_requests

\* C20 (as stated): the snapshot of to_dict, which export_metrics_json
\* writes, has exactly the top-level fields total_requests, cache_hits,
\* cache_misses, retry_count, avg_latency_ms, p95_latency_ms, max_latency_ms,
\* phase_breakdown and total_duration_s, phase_breakdown has exactly
\* match_ids_requests, match_details_requests and timeline_requests, and
\* every counter field equals the collector's counter at the export.
C20_SnapshotHasTotalDurationS ==
    export.of = "export_metrics_json" =>
        /\ DOMAIN export.doc = SnapshotFields \cup {"total_duration_s"}
        /\ DOMAIN export.doc.phase_breakdown = PhaseFields
        /\ CountersAreTheCollectors(export.doc)

\* C20 (amended): the same, the duration being under total_duration_seconds.
C20_SnapshotHasTotalDurationSeconds ==
    export.of = "export_metrics_json" =>
        /\ DOMAIN export.doc = SnapshotFields \cup {"total_duration_seconds"}
        /\ DOMAIN export.doc.phase_breakdown = PhaseFields
        /\ CountersAreTheCollectors(export.doc)

C20_Witness ==
    /\ export.of = "export_metrics_json"
    /\ export.written
    /\ export.doc.total_requests = 2
    /\ export.doc.cache_hits = 1
    /\ export.doc.cache_misses = 0
    /\ export.doc.retry_count = 1
    /\ export.doc.phase_breakdown.timeline_requests = 1
    /\ export.doc.total_duration_seconds = <<1>>

(***************************************************************************)
(* Retries of the history listing.                                         *)
(***************************************************************************)
\* the answer to the last request of the call
LastAsked == history.asked[Len(history.asked)]

\* the number of 429 answers that end the record of the requests
RECURSIVE Trailing429(_)
Trailing429(asked) ==
    IF asked = <<>> \/ asked[Len(asked)].answer # "rate_limited" THEN 0
    ELSE 1 + Trailing429(SubSeq(asked, 1, Len(asked) - 1))

\* every 429 answer is followed by a request for the same page, and after
\* any number of them the call is asleep or about to ask again
RateLimitNeverEndsTheCall ==
    /\ history.requests = Len(history.asked)
    /\ \A i \in 1..Len(history.asked) :
           (history.asked[i].answer = "rate_limited" /\ i < Len(history.asked)) =>
               /\ history.asked[i + 1].start = history.asked[i].start
               /\ history.asked[i + 1].count = history.asked[i].count
    /\ (history.asked # <<>> /\ LastAsked.answer = "rate_limited") =>
           /\ history.pc \in {"sleeping", "loop"}
           /\ history.remaining > 0
           /\ history.start = LastAsked.start
           /\ Len(history.slept) >= Trailing429(history.asked)

\* a request answered otherwise ends the call or leaves less to fetch
AnswerMakesProgress ==
    (history'.requests = history.requests + 1
     /\ history'.asked[Len(history'.asked)].answer # "rate_limited") =>
        \/ history'.pc \in {"returned", "raised"}
        \/ /\ history'.pc = "loop"
           /\ history'.remaining < history.remaining
           /\ history'.remaining > 0

\* a sleep ends in the loop, with the page unchanged
SleepEndsInTheLoop ==
    history.pc = "sleeping" =>
        /\ history'.pc = "loop"
        /\ history'.start = history.start
        /\ history'.remaining = history.remaining
        /\ history'.requests = history.requests

\* C22: fetch_match_history puts no bound on 429 retries: n consecutive 429
\* answers for a page are followed by request n + 1 for the same page, and
\* every other answer ends the call or shrinks what remains, so the call
\* returns unless upstream answers 429 forever.
C22_HistoryRetriesWithoutBound ==
    /\ [](mode = "history" => RateLimitNeverEndsTheCall)
    /\ [][mode = "history" => (AnswerMakesProgress /\ SleepEndsInTheLoop)]_vars

C22_Witness ==
    /\ mode = "history"
    /\ history.pc = "returned"
    /\ history.requests = 4
    /\ Trailing429(SubSeq(history.asked, 1, 3)) = 3
    /\ history.slept = <<DEFAULT_RETRY_AFTER, 1, MaxRetryAfter>>

\* C23: _retryable_get called with max_retries = m issues at most m + 1
\* requests: it sleeps and retries only while the answer is 429 and retries
\* remain, a 429 on the last allowed attempt is raised as an HTTP status
\* error, and any other error status is raised after a single request; with
\* the default m = 1 that is at most 2 requests and one sleep.
C23_RetryableGetIsBounded ==
    call.fn = "async_fetch._retryable_get" =>
        /\ call.mreqs <= call.retries + 1
        /\ Len(call.msleeps) <= call.retries
        /\ call.mreqs <= call.m429 + 1
        /\ call.mleft = call.retries - Len(call.msleeps)
        /\ call.m = "sleeping" => (Is429(call.mlast) /\ call.mreqs <= call.retries)
        /\ CallOver =>
             /\ call.mreqs = call.m429 + (IF Is429(call.mlast) THEN 0 ELSE 1)
             /\ Is429(call.mlast) =>
                    /\ call.mreqs = call.retries + 1
                    /\ call.pc = "raised" /\ call.error = "HTTPStatusError"
             /\ (call.mlast.kind = "http_error" /\ ~Is429(call.mlast)) =>
                    (call.pc = "raised" /\ call.error = "HTTPStatusError")
             /\ (call.mfirst.kind = "http_error" /\ ~Is429(call.mfirst)) => call.mreqs = 1
        /\ call.retries = max_retries => (call.mreqs <= 2 /\ Len(call.msleeps) <= 1)

C23_Witness ==
    /\ call.fn = "async_fetch._retryable_get"
    /\ call.retries = 2
    /\ call.pc = "raised"
    /\ call.error = "HTTPStatusError"
    /\ call.m429 = 3
    /\ call.mreqs = 3
    /\ Len(call.msleeps) = 2

(***************************************************************************)
(* Properties of the metrics of a batch.                                   *)
(***************************************************************************)
\* requests the tasks 1..k have issued for the match and for the timeline
RECURSIVE MatchIssued(_)
MatchIssued(k) == IF k = 0 THEN 0 ELSE task[k].mreqs + MatchIssued(k - 1)

RECURSIVE TimelineIssued(_)
TimelineIssued(k) == IF k = 0 THEN 0 ELSE task[k].treqs + TimelineIssued(k - 1)

Issued == MatchIssued(Len(task)) + TimelineIssued(Len(task))

MatchOutstanding == Cardinality({i \in DOMAIN task : task[i].m = "inflight"})

TimelineOutstanding == Cardinality({i \in DOMAIN task : task[i].t = "inflight"})

InBatchMode == mode \in {"sync", "async"}

\* C24 (as stated): every request records one latency sample and adds one to
\* total_requests and to its phase counter, so that in every reachable state
\* total_requests equals the number of samples and the number of requests
\* issued so far, in the synchronous path and in the asynchronous fetchers
\* under any interleaving.
C24_TotalRequestsIsRequestsIssued ==
    InBatchMode =>
        /\ metrics.total_requests = BagCardinality(metrics.request_latencies)
        /\ metrics.total_requests = Issued
        /\ metrics.match_details_requests = MatchIssued(Len(task))
        /\ metrics.timeline_requests = TimelineIssued(Len(task))

\* C24 (amended): the sample and the counts are recorded when the request is
\* answered: total_requests equals the number of samples and the number of
\* requests issued less those still outstanding, and so the number issued
\* whenever none is outstanding.
C24_TotalRequestsIsRequestsAnswered ==
    InBatchMode =>
        /\ metrics.total_requests = BagCardinality(metrics.request_latencies)
        /\ metrics.total_requests = Issued - Outstanding
        /\ metrics.match_details_requests = MatchIssued(Len(task)) - MatchOutstanding
        /\ metrics.timeline_requests = TimelineIssued(Len(task)) - TimelineOutstanding
        /\ metrics.match_ids_requests = 0
        /\ completed => (Outstanding = 0 /\ metrics.total_requests = Issued)

C24_Witness ==
    /\ mode = "async"
    /\ Outstanding = 1
    /\ Issued = 4
    /\ metrics.total_requests = 3
    /\ metrics.retry_count = 1

\* What the lookups of the batch give on the cache as it was before the
\* batch: the hits, the misses, and the tasks that go on to fetch.
RECURSIVE Hits0(_)
Hits0(k) ==
    IF k = 0 THEN 0
    ELSE Hits0(k - 1)
         + (IF use_cache THEN load_cached_match_data(files0[match_ids[k]]).hit ELSE 0)

RECURSIVE Misses0(_)
Misses0(k) ==
    IF k = 0 THEN 0
    ELSE Misses0(k - 1)
         + (IF use_cache THEN load_cached_match_data(files0[match_ids[k]]).miss ELSE 0)

RECURSIVE Fetchers0(_)
Fetchers0(k) ==
    IF k = 0 THEN 0
    ELSE Fetchers0(k - 1)
         + (IF ~use_cache \/ load_cached_match_data(files0[match_ids[k]]).kind = "none"
            THEN 1 ELSE 0)

\* C25: for a fixed batch, a fixed initial cache and fixed answers of
\* upstream, the final counters of FetchMetrics and the multiset of latency
\* samples are the same for every interleaving and completion order of the
\* tasks of process_matches_async, batches with a repeated id included:
\* every task's lookup sees the cache as it was before the batch, and the
\* final counters are determined by that cache and by the answers given.
C25_FinalMetricsAreOrderIndependent ==
    mode = "async" =>
        /\ files = files0
        /\ \A i \in Positions :
               (use_cache /\ task[i].lookup # "none") =>
                   task[i].seen = FileKind(files0[match_ids[i]])
        /\ completed =>
               /\ metrics.cache_hits = Hits0(Len(match_ids))
               /\ metrics.cache_misses = Misses0(Len(match_ids))
               /\ metrics.retry_count = n429
               /\ metrics.total_requests = 2 * Fetchers0(Len(match_ids)) + n429
               /\ BagCardinality(metrics.request_latencies) = metrics.total_requests
               /\ metrics.match_details_requests + metrics.timeline_requests
                      = metrics.total_requests
               /\ metrics.match_ids_requests = 0

C25_Witness ==
    /\ mode = "async"
    /\ completed
    /\ concurrency = 2
    /\ use_cache
    /\ match_ids = <<"m1", "m1">>
    /\ metrics.cache_misses = 2
    /\ metrics.total_requests = 5
    /\ metrics.retry_count = 1

(***************************************************************************)
(* Two tasks for one id.                                                   *)
(***************************************************************************)
\* a batch that holds one id twice, the cache in use and without a valid
\* entry for the id
RepeatedIdWithoutEntry ==
    /\ mode = "async"
    /\ use_cache
    /\ Len(match_ids) = 2
    /\ match_ids[1] = match_ids[2]
    /\ FileKind(files0[match_ids[1]]) = "absent"

\* tasks that have written the cache file of their id
Writers == {i \in Positions : task[i].writes > 0}

\* task j fetches although task i, whose match request upstream answered
\* with the match, is over
RefetchesAfter(i, j) ==
    /\ task[i].pc = "done"
    /\ task[i].mlast = "ok_object"
    /\ task[j].pc = "fetching"

\* C26: with concurrency >= 2, the cache in use and an id twice in the batch
\* without a valid entry, both tasks can miss, fetch and write the file of
\* the id; with concurrency = 1 the second task always finds the entry the
\* first one wrote after its fetch succeeded.  As a property of a state: a
\* task whose match request was answered with the match has written the
\* file, and with concurrency = 1 no task fetches the id again after it.
C26_RepeatedIdIsWrittenByEachFetch ==
    RepeatedIdWithoutEntry =>
        /\ \A i \in Positions :
               (task[i].pc = "done" /\ task[i].mlast = "ok_object") => i \in Writers
        /\ concurrency = 1 =>
               \A i, j \in Positions : ~RefetchesAfter(i, j)

\* the requests of the call that repeat an earlier request
RetriesMade ==
    (IF call.mreqs > 0 THEN call.mreqs - 1 ELSE 0)
    + (IF call.treqs > 0 THEN call.treqs - 1 ELSE 0)

\* C27: retry_count equals the number of retry attempts actually made: every
\* increment of retry_count is followed by a re-issue of the request that
\* was answered with 429, in the single-match and timeline fetches
\* (synchronous and asynchronous) and in identity resolution.
C27_RetryCountIsRetriesMade ==
    (CallOver /\ (IsSync(call.fn) \/ IsLeagueAsync(call.fn))) =>
        metrics.retry_count = RetriesMade

(***************************************************************************)
(* Properties of the cache counters of a batch.                            *)
(***************************************************************************)
\* the ids whose processing has begun
Processed == Cardinality({i \in Positions : task[i].runs > 0})

\* C28: with use_cache every processed id makes exactly one cache lookup,
\* which adds one to exactly one of cache_hits and cache_misses, and without
\* use_cache neither counter changes; so cache_hits + cache_misses is the
\* number of ids processed with use_cache, and cache_hits is the batch's
\* cached count.
C28_CacheCountersAreConserved ==
    InBatchMode =>
        /\ use_cache => metrics.cache_hits + metrics.cache_misses = Processed
        /\ ~use_cache => (metrics.cache_hits = 0 /\ metrics.cache_misses = 0)
        /\ metrics.cache_hits = cached
        /\ (completed /\ use_cache) =>
               metrics.cache_hits + metrics.cache_misses = Len(match_ids)

ZeroConcurrencyBatch ==
    mode = "async" /\ concurrency = 0 /\ match_ids # <<>>

EveryTaskIsBlocked ==
    /\ \A i \in Positions : task[i] = NewTask
    /\ semaphore = 0
    /\ Issued = 0
    /\ metrics = NewMetrics
    /\ successful = 0 /\ failed = 0 /\ cached = 0
    /\ files = files0
    /\ ~completed

C30_ZeroConcurrencyDeadlocks ==
    /\ [](ZeroConcurrencyBatch => EveryTaskIsBlocked)
    /\ [][~ZeroConcurrencyBatch]_vars

C30_Witness ==
    /\ ZeroConcurrencyBatch
    /\ Len(match_ids) = MaxBatch
    /\ EveryTaskIsBlocked

(***************************************************************************)
(* The specification of ensure_matches_for_player: one call, on the        *)
(* default matches directory and on another one.                           *)
(***************************************************************************)
\* the directory save_match_data and load_cached_match_data use
MATCHES_DIR == "matches"

\* the values of the matches_dir argument
MatchesDirs == {MATCHES_DIR, "elsewhere"}

\* the player the call is about, and another participant
Puuids == <<"p1", "p2">>

\* largest min_matches and fetch_count arguments
MaxMinMatches == 2

MaxFetchCount == 2

\* A match with its participants.
PlayerMatch(id, ps) ==
    JObj([metadata |-> JObj([matchId |-> JStr(id)]),
          info |-> JObj([participants |->
                            JArr([n \in 1..Len(ps) |-> JObj([puuid |-> JStr(ps[n])])])])])

\* any(p.get("puuid") == puuid for p in data.get("info", {}).get("participants", []));
\* an AttributeError or TypeError on the way is caught by `except Exception`
\* and the file is not counted.
involves_player(data, puuid) ==
    IF data.t # "object" THEN FALSE
    ELSE LET info == IF "info" \in DOMAIN data.o THEN data.o["info"] ELSE EmptyObj
         IN  IF info.t # "object" THEN FALSE
             ELSE LET ps == IF "participants" \in DOMAIN info.o
                            THEN info.o["participants"] ELSE JArr(<<>>)
                  IN  IF ps.t # "array" THEN FALSE
                      ELSE \E n \in 1..Len(ps.l) :
                              /\ \A j \in 1..n : ps.l[j].t = "object"
                              /\ "puuid" \in DOMAIN ps.l[n].o
                              /\ ps.l[n].o["puuid"] = JStr(puuid)

\* One file of matches_path.glob("*.json"): opened as UTF-8 and parsed; any
\* exception skips the file.
file_involves_player(file, puuid) ==
    /\ file.exists
    /\ file.utf8
    /\ json_load(file.toks).ok
    /\ involves_player(json_load(file.toks).v, puuid)

count_player_matches(dir, puuid) ==
    Cardinality({id \in Ids : file_involves_player(dir[id], puuid)})

\* The directory a path names: the cache directory, or another one.
Directory(d) == IF d = MATCHES_DIR THEN files ELSE ensure.elsewhere

matches_path == Directory(ensure.matches_dir)

\* What a file of a matches directory may hold before the call.
EnsureFiles(id) ==
    {Absent,
     Text(json_dump(PlayerMatch(id, Puuids))),
     Text(json_dump(PlayerMatch(id, <<Puuids[2]>>)))}

\* The answers to the match request of an id during the call.
EnsureMatchResponses(id) ==
    {OkResponse(PlayerMatch(id, Puuids)), OkResponse(PlayerMatch(id, <<Puuids[2]>>)),
     [kind |-> "http_error", status |-> 404], TransportError}

EnsureTimelineResponses == {OkResponse(TimelinePayload), [kind |-> "http_error", status |-> 404]}

\* The ids of a list answer: n ids of the history, no id twice.
HistoryIds(n) == {l \in [1..n -> Ids] : \A a, b \in 1..n : l[a] = l[b] => a = b}

NewEnsure(d, min_matches, fetch_count, elsewhere) ==
    [pc |-> "called",             \* "called", "listing", "processing", "returned", "raised"
     puuid |-> Puuids[1],
     matches_dir |-> d,
     min_matches |-> min_matches,
     fetch_count |-> fetch_count,
     elsewhere |-> elsewhere,     \* the files of the directory that is not MATCHES_DIR
     fetched |-> FALSE,           \* fetch_match_history returned
     result |-> <<>>]             \* <<n>>: the call returned n

unchanged_by_ensure ==
    UNCHANGED <<mode, concurrency, files0, semaphore, completed, ops, last_put, got,
                v_in, v_out, history, call, export>>

\* matches_path.mkdir, the first count, and the early return.
EnsureCall ==
    /\ mode = "ensure"
    /\ ensure.pc = "called"
    /\ LET player_match_count == count_player_matches(matches_path, ensure.puuid)
       IN  ensure' = IF player_match_count >= ensure.min_matches
                     THEN [ensure EXCEPT !.pc = "returned", !.result = <<player_match_count>>]
                     ELSE [ensure EXCEPT !.pc = "listing"]
    /\ UNCHANGED <<match_ids, use_cache, files, metrics, successful, failed, cached, idx,
                   task, n429>>
    /\ unchanged_by_ensure

\* fetch_match_history(puuid, fetch_count, token), for a fetch_count of one
\* page: the request and its answer r, with the ids of a list answer.  A 429
\* answer leaves the call in its loop; any other failure leaves
\* ensure_matches_for_player as an exception.  Then process_matches is entered
\* with use_cache=False.
EnsureList(r, ids) ==
    /\ mode = "ensure"
    /\ ensure.pc = "listing"
    /\ ensure.fetch_count <= max_per_request
    /\ IF count_is_invalid(ensure.fetch_count)
       THEN /\ ensure' = [ensure EXCEPT !.pc = "raised"]
            /\ UNCHANGED <<metrics, n429, match_ids, use_cache, task, idx>>
       ELSE /\ Is429(r) => n429 < Max429
            /\ metrics' = make_api_request_metrics(metrics, r, "match_ids")
            /\ n429' = IF Is429(r) THEN n429 + 1 ELSE n429
            /\ IF r.kind = "ok" /\ r.body = "list"
               THEN /\ Len(ids) = r.ids
                    /\ ensure' = [ensure EXCEPT !.pc = "processing", !.fetched = TRUE]
                    /\ match_ids' = ids
                    /\ use_cache' = FALSE
                    /\ task' = [i \in 1..Len(ids) |-> NewTask]
                    /\ idx' = 1
               ELSE /\ ensure' = IF history_retries(r) THEN ensure
                                 ELSE [ensure EXCEPT !.pc = "raised"]
                    /\ UNCHANGED <<match_ids, use_cache, task, idx>>
    /\ UNCHANGED <<files, successful, failed, cached>>
    /\ unchanged_by_ensure

\* One iteration of the loop of process_matches(match_ids, token, use_cache=False).
EnsureProcess(mr, tr, w) ==
    /\ mode = "ensure"
    /\ ensure.pc = "processing"
    /\ idx <= Len(match_ids)
    /\ process_matches_step(Lookup(match_ids[idx]), mr, tr, w)
    /\ UNCHANGED <<match_ids, use_cache, n429, ensure>>
    /\ unchanged_by_ensure

\* process_matches has returned: `return _count_player_matches()`.
EnsureRecount ==
    /\ mode = "ensure"
    /\ ensure.pc = "processing"
    /\ idx > Len(match_ids)
    /\ ensure' = [ensure EXCEPT
                     !.pc = "returned",
                     !.result = <<count_player_matches(matches_path, ensure.puuid)>>]
    /\ UNCHANGED <<match_ids, use_cache, files, metrics, successful, failed, cached, idx,
                   task, n429>>
    /\ unchanged_by_ensure

InitEnsure ==
    /\ mode = "ensure"
    /\ files \in [Ids -> UNION {EnsureFiles(id) : id \in Ids}]
    /\ \A id \in Ids : files[id] \in EnsureFiles(id)
    /\ files0 = files
    /\ InitNoBatch
    /\ ops = 0
    /\ last_put = [id \in Ids |-> NoPut]
    /\ got = NoLoad
    /\ v_in = JNull
    /\ v_out = NoResult
    /\ history = NoHistory
    /\ call = NoCall
    /\ export = NoExport
    /\ \E d \in MatchesDirs : \E min_matches \in 1..MaxMinMatches :
         \E fetch_count \in 0..MaxFetchCount :
           \E elsewhere \in [Ids -> UNION {EnsureFiles(id) : id \in Ids}] :
             /\ \A id \in Ids : elsewhere[id] \in
                    (IF d = MATCHES_DIR THEN {Absent} ELSE EnsureFiles(id))
             /\ ensure = NewEnsure(d, min_matches, fetch_count, elsewhere)

NextEnsure ==
    \/ EnsureCall
    \/ \E r \in HistoryResponses(Min(max_per_request, ensure.fetch_count)) :
         \E ids \in UNION {HistoryIds(n) : n \in 0..MaxFetchCount} : EnsureList(r, ids)
    \/ \E mr \in (IF idx <= Len(match_ids) THEN EnsureMatchResponses(match_ids[idx]) ELSE {}) :
         \E tr \in (IF fetch_match_data_ok(mr) THEN EnsureTimelineResponses ELSE {NoResponse}) :
           \E w \in (IF fetch_match_data_ok(mr) THEN WriteOutcomes ELSE {"none"}) :
             EnsureProcess(mr, tr, w)
    \/ EnsureRecount

SpecEnsure == InitEnsure /\ [][NextEnsure]_vars

\* the ids whose match the call fetched and saved, the match involving the player
NewlyFetchedMatches ==
    {match_ids[i] : i \in {i \in Positions :
                              /\ task[i].outcome = "stored"
                              /\ involves_player(task[i].mdata, ensure.puuid)}}

\* the ids the recount over D counts
Recounted == {id \in Ids : file_involves_player(matches_path[id], ensure.puuid)}

ReturnedAfterFetching ==
    mode = "ensure" /\ ensure.pc = "returned" /\ ensure.fetched

\* C21: when fewer than min_matches files of D involve the player, the matches
\* ensure_matches_for_player fetches are stored in D: the recount it returns
\* is the count over D and includes every newly fetched match that involves
\* the player, for every directory D.
C21_FetchedMatchesAreRecountedInD ==
    ReturnedAfterFetching =>
        /\ ensure.result = <<Cardinality(Recounted)>>
        /\ NewlyFetchedMatches \subseteq Recounted

====
